---- MODULE Spec2Model ----
(***************************************************************************)
(* LoRa2MQTT gateway: frame codec (messages.py), discovery catalog and     *)
(* dispatch engine (lora2mqtt/lora2mqtt.py).                               *)
(*                                                                         *)
(* Python values are modelled as follows.                                  *)
(*   bytes            sequence of integers 0..255; Python index i is i+1   *)
(*   object / dict    record with a cls field naming the Python class      *)
(*   f-string         tuple of its segments                                *)
(*   exception        the name of the exception class, "none" if none      *)
(*   int              where it can exceed 31 bits (a value item's value):  *)
(*                    the pair hi, lo with value hi * 65536 + lo and       *)
(*                    lo in 0..65535, since TLC's integers are 32 bits     *)
(*   float            the pair hi, lo and a decimal scale: the quotient of *)
(*                    hi * 65536 + lo by 10^scale                          *)
(*                                                                         *)
(* Spec       the gateway from startup on, any frames in any order         *)
(* SpecValue  one value frame delivered to a catalog of one descriptor     *)
(* SpecCodec  one discovery frame delivered to an empty catalog            *)
(* SpecBuilders  one call of an outbound request builder                   *)
(* SpecStore  discovery frames, failing writes, and a restart on the file  *)
(* SpecStartup  main() step by step, with frames arriving during it        *)
(* SpecShared  two devices sending frames for the same entities            *)
(* SpecPing   one ping_req of any RSSI answered                            *)
(***************************************************************************)
EXTENDS Integers, Sequences, FiniteSets, TLC

\* ------------------------------------------------------------------ bounds
\* largest number of value items carried by an enumerated value frame
MaxItems == 2
\* largest number of config items carried by an enumerated discovery frame
MaxCfgItems == 2

\* ------------------------------------------------------- messages.py tables
Cover_deviceClassName ==
  << "none", "awning", "blind", "curtain", "damper", "door", "garage",
     "gate", "shade", "shutter", "window" >>

Cover_state == << "closed", "open", "opening", "closing" >>

BinarySensor_deviceClassName ==
  << "none", "battery", "battery_charging", "cold", "connectivity", "door",
     "garage_door", "gas", "heat", "light", "lock", "moisture", "motion",
     "moving", "occupancy", "opening", "plug", "power", "presence",
     "problem", "safety", "smoke", "sound", "vibration", "window" >>

Sensor_deviceClassName ==
  << "none", "apparent_power", "aqi", "atmospheric_pressure", "battery",
     "carbon_dioxide", "carbon_monoxide", "current", "data_rate",
     "data_size", "date", "distance", "duration", "energy", "enum_class",
     "frequency", "gas", "humidity", "illuminance", "irradiance",
     "moisture", "monetary", "nitrogen_dioxide", "nitrogen_monoxide",
     "nitrous_oxide", "ozone", "pm1", "pm10", "pm25", "power_factor",
     "power", "precipitation", "precipitation_intensity", "pressure",
     "reactive_power", "signal_strength", "sound_pressure", "speed",
     "sulphur_dioxide", "temperature", "timestamp",
     "volatile_organic_compounds", "voltage", "volume", "water", "weight",
     "wind_speed" >>

Component_name == << "binary_sensor", "sensor", "cover" >>

\* the degree sign and the micro sign are written in ASCII
Unit_name ==
  << "", "degC", "degF", "K", "%", "km", "m", "dm", "cm", "mm", "um", "s",
     "ms" >>

Size_value == << 1, 2, 4, 0 >>

\* MsgType(IntEnum)
PING_REQ == 0
PING_MSG == 1
DISCOVERY_REQ == 2
DISCOVERY_MSG == 3
VALUE_REQ == 4
VALUE_MSG == 5
CONFIG_REQ == 6
CONFIG_MSG == 7
CONFIG_SET_REQ == 8
SERVICE_REQ == 9

\* --------------------------------------------------------- Python helpers
\* t[i] on a tuple or bytes object, for 0 <= i < len(t)
Idx(t, i) == t[i + 1]

\* t[i] raises IndexError
OutOfRange(t, i) == i < 0 \/ i >= Len(t)

\* msg[a:b], which silently stops at the end of msg
Slice(msg, a, b) ==
  SubSeq(msg, a + 1, IF b < Len(msg) THEN b ELSE Len(msg))

Ok(v) == [exc |-> "none", val |-> v]

Raise(e) == [exc |-> e, val |-> << >>]

\* ------------------------------------------------------------- ConfigItem
ConfigItem(id, unit, signed, size, precision) ==
  [cls |-> "ConfigItem", id |-> id, unit |-> unit, signed |-> signed,
   size |-> size, precision |-> precision]

\* variant: the signed flag is read with the mask 0x08
ConfigItem_from_bytes_SignedMask08(msg) ==
  IF OutOfRange(msg, 0) \/ OutOfRange(msg, 1)
       \/ OutOfRange(Unit_name, Idx(msg, 1)) \/ OutOfRange(msg, 2)
  THEN Raise("IndexError")
  ELSE Ok(ConfigItem(Idx(msg, 0),
                     Idx(Unit_name, Idx(msg, 1)),
                     (Idx(msg, 2) \div 8) % 2 # 0,
                     Idx(Size_value, (Idx(msg, 2) \div 4) % 4),
                     Idx(msg, 2) % 4))

ConfigItem_from_bytes(msg) ==
  IF OutOfRange(msg, 0) \/ OutOfRange(msg, 1)
       \/ OutOfRange(Unit_name, Idx(msg, 1)) \/ OutOfRange(msg, 2)
  THEN Raise("IndexError")
  ELSE Ok(ConfigItem(Idx(msg, 0),
                     Idx(Unit_name, Idx(msg, 1)),
                     (Idx(msg, 2) \div 16) % 2 # 0,
                     Idx(Size_value, (Idx(msg, 2) \div 4) % 4),
                     Idx(msg, 2) % 4))

\* variant: size and precision change places in the positional arguments
ConfigItem_from_dict_SizePrecisionSwapped(msg) ==
  ConfigItem(msg.id, msg.unit, msg.signed, msg.precision, msg.size)

\* ConfigItem.from_dict
ConfigItem_from_dict(msg) ==
  ConfigItem(msg.id, msg.unit, msg.signed, msg.size, msg.precision)

\* a str as a JSON string (quoted, non-ASCII characters escaped) and a bool
\* as the JSON literal true or false
JsonString(s) == << "string", s >>

JsonLiteral(b) == IF b THEN "true" ELSE "false"

\* ConfigItem.to_json : json.dumps of the object's __dict__, a JSON object
\* with the members in the order of __init__
ConfigItem_to_json(self) ==
  [cls |-> "json", id |-> self.id, unit |-> JsonString(self.unit),
   signed |-> JsonLiteral(self.signed), size |-> self.size,
   precision |-> self.precision]

\* json.loads of such a JSON object: a dict of int, str and bool values
json_loads(text) ==
  [cls |-> "dict", id |-> text.id, unit |-> text.unit[2],
   signed |-> (text.signed = "true"), size |-> text.size,
   precision |-> text.precision]

\* ----------------------------------------------------------- DiscoveryMsg
DiscoveryMsg(entity_id, component, device_class, unit, signed, size, precision, config_items) ==
  [cls |-> "DiscoveryMsg", entity_id |-> entity_id, component |-> component,
   device_class |-> device_class, unit |-> unit, signed |-> signed,
   size |-> size, precision |-> precision, config_items |-> config_items]

\* the device class vocabulary selected by the component index
DeviceClassTable(c) ==
  IF c = 0 THEN BinarySensor_deviceClassName
  ELSE IF c = 1 THEN Sensor_deviceClassName
  ELSE Cover_deviceClassName

\* the config items decoded by the loop over range(num_cfg_items)
DecodeConfigItems(msg, n) ==
  [i \in 1..n |-> ConfigItem_from_bytes(Slice(msg, 7 + 3 * (i - 1),
                                              7 + 3 * (i - 1) + 3))]

DiscoveryMsg_from_bytes(msg) ==
  IF OutOfRange(msg, 1) \/ OutOfRange(msg, 2)
       \/ OutOfRange(Component_name, Idx(msg, 2))
       \/ OutOfRange(msg, 3)
       \/ OutOfRange(DeviceClassTable(Idx(msg, 2)), Idx(msg, 3))
       \/ OutOfRange(msg, 4) \/ OutOfRange(Unit_name, Idx(msg, 4))
       \/ OutOfRange(msg, 5) \/ OutOfRange(msg, 6)
  THEN Raise("IndexError")
  ELSE LET num_cfg_items == Idx(msg, 6)
           items == DecodeConfigItems(msg, num_cfg_items)
       IN IF \E i \in 1..num_cfg_items : items[i].exc # "none"
          THEN Raise("IndexError")
          ELSE IF num_cfg_items = 0
          \* config_items is bound only inside "if num_cfg_items > 0"
          THEN Raise("UnboundLocalError")
          ELSE Ok(DiscoveryMsg(
                    Idx(msg, 1),
                    Idx(Component_name, Idx(msg, 2)),
                    Idx(DeviceClassTable(Idx(msg, 2)), Idx(msg, 3)),
                    Idx(Unit_name, Idx(msg, 4)),
                    (Idx(msg, 5) \div 16) % 2 # 0,
                    Idx(Size_value, (Idx(msg, 5) \div 4) % 4),
                    Idx(msg, 5) % 4,
                    [i \in 1..num_cfg_items |-> items[i].val]))

\* variant: the commented-out comparison of config_items is active
DiscoveryMsg_eq_WithConfigItems(self, other) ==
  /\ self.entity_id = other.entity_id
  /\ self.component = other.component
  /\ self.device_class = other.device_class
  /\ self.unit = other.unit
  /\ self.signed = other.signed
  /\ self.size = other.size
  /\ self.precision = other.precision
  /\ self.config_items = other.config_items

\* variant: no __eq__, so that objects compare by identity and a decoded
\* descriptor never equals a stored one
DiscoveryMsg_eq_Identity(self, other) == FALSE

\* DiscoveryMsg.__eq__ : config_items is not compared
DiscoveryMsg_eq(self, other) ==
  /\ self.entity_id = other.entity_id
  /\ self.component = other.component
  /\ self.device_class = other.device_class
  /\ self.unit = other.unit
  /\ self.signed = other.signed
  /\ self.size = other.size
  /\ self.precision = other.precision

\* --------------------------------------------------- ValueItem / ValueMsg
\* struct.unpack("!BI", msg)
ValueItem(msg) ==
  IF Len(msg) # 5
  THEN Raise("struct.error")
  ELSE Ok([entity_id |-> Idx(msg, 0),
           value |-> [hi |-> Idx(msg, 1) * 256 + Idx(msg, 2),
                      lo |-> Idx(msg, 3) * 256 + Idx(msg, 4)]])

ValueMsg(msg) ==
  IF OutOfRange(msg, 1)
  THEN Raise("IndexError")
  ELSE LET num_entities == Idx(msg, 1)
           items == [i \in 1..num_entities |->
                       ValueItem(Slice(msg, 2 + 5 * (i - 1),
                                       2 + 5 * (i - 1) + 5))]
       IN IF \E i \in 1..num_entities : items[i].exc # "none"
          THEN Raise("struct.error")
          ELSE Ok([num_entities |-> num_entities,
                   value_items |-> [i \in 1..num_entities |-> items[i].val]])

\* ---------------------------------------------------------------- PingMsg
\* struct.unpack("!Bb", msg)[1]
PingMsg(msg) ==
  IF Len(msg) # 2
  THEN Raise("struct.error")
  ELSE Ok([rssi |-> IF Idx(msg, 1) >= 128 THEN Idx(msg, 1) - 256
                    ELSE Idx(msg, 1)])

\* ------------------------------------------------ configuration, registry
\* config["MQTT"]["base_topic"] and ["discovery_prefix"], lower-cased defaults
base_topic == "lora2mqtt"

discovery_prefix == "homeassistant"

\* devices.json: address -> name and entity names.  The keys are the decimal
\* strings of the addresses and of the entity ids; str() is one-to-one on
\* integers, so the integers themselves are the keys here.
devices ==
  (1 :> [name |-> "Garage", entities |-> (5 :> "Door" @@ 6 :> "Temp")]) @@
  (2 :> [name |-> "Gate", entities |-> (5 :> "Latch")])

\* str.lower() on the names of the registry
LowerTable ==
  [s \in {"Garage", "Gate", "Door", "Temp", "Latch"} |->
     CASE s = "Garage" -> "garage"
       [] s = "Gate" -> "gate"
       [] s = "Door" -> "door"
       [] s = "Temp" -> "temp"
       [] s = "Latch" -> "latch"]

\* variant: the names are used as configured, without str.lower()
Lower_AsConfigured(s) == s

Lower(s) == LowerTable[s]

\* --------------------------------------------------- durable catalog store
\* jsonpickle.encode(obj, unpicklable=False) of one config item: a ConfigItem
\* object and a dict loaded from the file both become a plain dict
Pickle_ConfigItem(c) == [c EXCEPT !.cls = "dict"]

Pickle_DiscoveryMsg(d) ==
  [cls |-> "dict", entity_id |-> d.entity_id, component |-> d.component,
   device_class |-> d.device_class, unit |-> d.unit, signed |-> d.signed,
   size |-> d.size, precision |-> d.precision,
   config_items |-> [i \in 1..Len(d.config_items) |->
                       Pickle_ConfigItem(d.config_items[i])]]

\* a write that lists the descriptors last first
jsonpickle_encode_Reversed(msgs) ==
  [state |-> "list",
   items |-> [i \in 1..Len(msgs) |->
                Pickle_DiscoveryMsg(msgs[Len(msgs) + 1 - i])]]

\* the content of discovery.json after a write of the list msgs
jsonpickle_encode(msgs) ==
  [state |-> "list",
   items |-> [i \in 1..Len(msgs) |-> Pickle_DiscoveryMsg(msgs[i])]]

FileMissing == [state |-> "missing", items |-> << >>]

FileCorrupt == [state |-> "corrupt", items |-> << >>]

\* DiscoveryMsg.from_dict : config_items stays the list of dicts of the file
DiscoveryMsg_from_dict(msg) ==
  DiscoveryMsg(msg.entity_id, msg.component, msg.device_class, msg.unit,
               msg.signed, msg.size, msg.precision, msg.config_items)

\* a file that is JSON but not a list: a number
FileNumber == [state |-> "number", items |-> << >>]

\* the keys DiscoveryMsg.from_dict subscripts msg with
DescriptorKeys ==
  {"entity_id", "component", "device_class", "unit", "signed", "size",
   "precision", "config_items"}

\* the items of the file before the first one that from_dict fails on (all
\* of them if there is none)
RECURSIVE Loadable(_)
Loadable(items) ==
  IF items = << >> \/ ~(DescriptorKeys \subseteq DOMAIN Head(items))
  THEN << >>
  ELSE << Head(items) >> \o Loadable(Tail(items))

\* lora_load_discovery on the file f: the catalog, the log lines and the
\* exception that leaves it.  Only FileNotFoundError and JSONDecodeError are
\* caught: iterating a number raises TypeError, from_dict on a dict without
\* one of the keys raises KeyError after the items before it are appended
lora_load_discovery(f) ==
  IF f.state = "missing"
  THEN [msgs |-> << >>, log |-> << "warning: could not find file" >>,
        exc |-> "none"]
  ELSE IF f.state = "corrupt"
  THEN [msgs |-> << >>, log |-> << "warning: failed to decode file" >>,
        exc |-> "none"]
  ELSE IF f.state = "number"
  THEN [msgs |-> << >>, log |-> << >>, exc |-> "TypeError"]
  ELSE [msgs |-> [i \in 1..Len(Loadable(f.items)) |->
                    DiscoveryMsg_from_dict(f.items[i])],
        log |-> << >>,
        exc |-> IF Len(Loadable(f.items)) < Len(f.items)
                THEN "KeyError" ELSE "none"]

\* ------------------------------------------------- discovery announcement
\* the payload built by mqtt_create_discovery_cover / _binary_sensor / _sensor
DiscoveryPayload(device, entity) ==
  LET device_name == device.name
      entity_name == device.entities[entity.entity_id]
      unique_id == << Lower(device_name), "_", Lower(entity_name) >>
  IN [name |-> entity_name,
      device_class |-> entity.device_class,
      unique_id |-> unique_id,
      object_id |-> unique_id,
      device |-> device_name,
      state_topic |-> << base_topic, Lower(device_name), "state" >>,
      command_topic |-> IF entity.component = "cover"
                        THEN << base_topic, Lower(device_name), "set" >>
                        ELSE << >>,
      unit_of_measurement |-> IF entity.component = "sensor"
                              THEN entity.unit ELSE "",
      suggested_display_precision |-> IF entity.component = "sensor"
                                      THEN entity.precision ELSE 0,
      value_template |-> << "value_json", Lower(entity_name) >>]

\* mqtt_discovery_announce_entity: the publishes it makes and the exception
\* it raises (the entity name lookup is a plain dict subscript)
mqtt_discovery_announce_entity(device, entity) ==
  IF entity.entity_id \notin DOMAIN device.entities
  THEN [exc |-> "KeyError", pubs |-> << >>, log |-> << >>]
  ELSE IF entity.component \in {"cover", "binary_sensor", "sensor"}
  THEN [exc |-> "none",
        pubs |-> << [topic |-> << discovery_prefix, entity.component,
                                  Lower(device.name),
                                  Lower(device.entities[entity.entity_id]),
                                  "config" >>,
                     kind |-> "discovery",
                     payload |-> DiscoveryPayload(device, entity),
                     qos |-> 1, retain |-> TRUE] >>,
        log |-> << "info: published entity" >>]
  ELSE [exc |-> "none", pubs |-> << >>,
        log |-> << "warning: discovery not implemented",
                   "warning: no discovery payload" >>]

\* the loop "for entity in discovery_msgs" of
\* mqtt_discovery_announce_device from the descriptors msgs on: it ends at
\* the first exception
RECURSIVE AnnounceEntities(_, _)
AnnounceEntities(device, msgs) ==
  IF msgs = << >>
  THEN [exc |-> "none", pubs |-> << >>, log |-> << >>]
  ELSE LET ann == mqtt_discovery_announce_entity(device, Head(msgs))
           rest == AnnounceEntities(device, Tail(msgs))
       IN IF ann.exc # "none" THEN ann
          ELSE [exc |-> rest.exc, pubs |-> ann.pubs \o rest.pubs,
                log |-> ann.log \o rest.log]

\* mqtt_discovery_announce_device(id, devices[id]) on the catalog msgs
mqtt_discovery_announce_device(id, msgs) ==
  IF id = 1
  THEN LET all == AnnounceEntities(devices[id], msgs)
       IN [all EXCEPT !.log = << "info: announcing device" >> \o all.log]
  ELSE [exc |-> "none", pubs |-> << >>,
        log |-> << "info: announcing device",
                   "warning: device has no discovery" >>]

\* the keys of devices.json in file order, which devices.items() follows
DeviceIds == << 1, 2 >>

\* the loop "for id, device in devices.items()" from the ids on
RECURSIVE AnnounceDevices(_, _)
AnnounceDevices(ids, msgs) ==
  IF ids = << >>
  THEN [exc |-> "none", pubs |-> << >>, log |-> << >>]
  ELSE LET ann == mqtt_discovery_announce_device(Head(ids), msgs)
           rest == AnnounceDevices(Tail(ids), msgs)
       IN IF ann.exc # "none" THEN ann
          ELSE [exc |-> rest.exc, pubs |-> ann.pubs \o rest.pubs,
                log |-> ann.log \o rest.log]

\* mqtt_discovery_announce_all() on the catalog msgs
mqtt_discovery_announce_all(msgs) ==
  LET all == AnnounceDevices(DeviceIds, msgs)
  IN IF all.exc # "none"
     THEN [all EXCEPT !.log = << "info: announcing all" >> \o all.log]
     ELSE [all EXCEPT !.log = << "info: announcing all" >> \o all.log
                               \o << "info: all announced" >>]

\* --------------------------------------------------------- reconciliation
\* positions of discovery_msgs whose entity_id is the decoded one
SameId(msgs, msg_decoded) ==
  {i \in 1..Len(msgs) : msgs[i].entity_id = msg_decoded.entity_id}

\* positions where "item != msg_decoded" holds
Differing(msgs, msg_decoded) ==
  {i \in SameId(msgs, msg_decoded) : ~DiscoveryMsg_eq(msgs[i], msg_decoded)}

\* variant: the replacement is assigned to the loop variable, not to the list
ReconcileList_AssignLoopVar(msgs, msg_decoded) ==
  IF SameId(msgs, msg_decoded) # {} THEN msgs ELSE Append(msgs, msg_decoded)

\* variant: "found = True" is missing under "if item != msg_decoded", so a
\* descriptor that replaced another is appended as well
ReconcileList_FoundOnlyIfSame(msgs, msg_decoded) ==
  LET replaced == [i \in 1..Len(msgs) |->
                     IF i \in Differing(msgs, msg_decoded)
                     THEN msg_decoded ELSE msgs[i]]
  IN IF SameId(msgs, msg_decoded) \ Differing(msgs, msg_decoded) # {}
     THEN replaced
     ELSE Append(replaced, msg_decoded)

\* variant: a descriptor that differs is removed and the new one appended
ReconcileList_MoveToEnd(msgs, msg_decoded) ==
  IF Differing(msgs, msg_decoded) # {}
  THEN Append(SelectSeq(msgs, LAMBDA m : m.entity_id # msg_decoded.entity_id),
              msg_decoded)
  ELSE IF SameId(msgs, msg_decoded) # {} THEN msgs
  ELSE Append(msgs, msg_decoded)

\* discovery_msgs after the loop "discovery_msgs[i] = msg_decoded" and the
\* append under "if not found"
ReconcileList(msgs, msg_decoded) ==
  LET replaced == [i \in 1..Len(msgs) |->
                     IF i \in Differing(msgs, msg_decoded)
                     THEN msg_decoded ELSE msgs[i]]
  IN IF SameId(msgs, msg_decoded) # {} THEN replaced
     ELSE Append(replaced, msg_decoded)

\* variant: "modified = True" is missing under "if not found"
ReconcileModified_NoDirtyOnAppend(msgs, msg_decoded) ==
  Differing(msgs, msg_decoded) # {}

\* variant: "modified = True" is missing in the loop
ReconcileModified_NoDirtyOnReplace(msgs, msg_decoded) ==
  SameId(msgs, msg_decoded) = {}

\* variant: modified starts as True
ReconcileModified_Always(msgs, msg_decoded) == TRUE

\* the flag modified after the loop and the append
ReconcileModified(msgs, msg_decoded) ==
  Differing(msgs, msg_decoded) # {} \/ SameId(msgs, msg_decoded) = {}

\* the log lines of the loop, in list order, and of the append
ReconcileLog(msgs, msg_decoded) ==
  LET same_id == SameId(msgs, msg_decoded)
  IN IF same_id = {}
     THEN << "warning: entity not in discovery_msgs" >>
     ELSE [i \in 1..Cardinality(same_id) |->
             LET k == CHOOSE j \in same_id :
                        Cardinality({m \in same_id : m < j}) = i - 1
             IN IF k \in Differing(msgs, msg_decoded)
                THEN "warning: entity is different than in discovery_msgs"
                ELSE "debug: entity is same as in discovery_msgs"]

\* lines 413-432 of lora_parse_discovery_msg: the new list, the modified flag
\* and the log lines
Reconcile(msgs, msg_decoded) ==
  [msgs |-> ReconcileList(msgs, msg_decoded),
   modified |-> ReconcileModified(msgs, msg_decoded),
   log |-> ReconcileLog(msgs, msg_decoded)]

\* the outcome of handling one frame: the catalog and the file after it,
\* what was published, sent on the radio, written to the file and logged
\* during it, and the exception that left the handler
Outcome(msgs, f, pubs, sends, writes, log, exc) ==
  [msgs |-> msgs, file |-> f, pubs |-> pubs, sends |-> sends,
   writes |-> writes, log |-> log, exc |-> exc]

\* What opening discovery.json for writing and writing it does: "ok",
\* "open_fails" (the file stays as it is), "write_fails" (the file is
\* truncated, then the write fails and leaves no decodable text)
VARIABLE disk

\* variant: only the frames of device 1 are reconciled with the catalog
lora_parse_discovery_msg_OwnDeviceOnly(payload, msgs, f) ==
  LET dec == DiscoveryMsg_from_bytes(payload.message)
  IN IF dec.exc # "none"
     THEN Outcome(msgs, f, << >>, << >>, << >>, << >>, dec.exc)
     ELSE LET r == IF payload.header_from = 1
                   THEN Reconcile(msgs, dec.val)
                   ELSE [msgs |-> msgs, modified |-> FALSE, log |-> << >>]
              snapshot == jsonpickle_encode(r.msgs)
              ann == mqtt_discovery_announce_entity(
                       devices[payload.header_from], dec.val)
          IN IF r.modified /\ disk # "ok"
             \* open(..., mode="w") or f.write raises OSError, which
             \* nothing catches; the list is already updated
             THEN Outcome(r.msgs,
                          IF disk = "open_fails" THEN f ELSE FileCorrupt,
                          << >>, << >>, << >>, r.log, "OSError")
             ELSE
             Outcome(r.msgs,
                     IF r.modified THEN snapshot ELSE f,
                     ann.pubs,
                     << >>,
                     IF r.modified THEN << snapshot >> ELSE << >>,
                     r.log \o ann.log,
                     ann.exc)

lora_parse_discovery_msg(payload, msgs, f) ==
  LET dec == DiscoveryMsg_from_bytes(payload.message)
  IN IF dec.exc # "none"
     THEN Outcome(msgs, f, << >>, << >>, << >>, << >>, dec.exc)
     ELSE LET r == Reconcile(msgs, dec.val)
              snapshot == jsonpickle_encode(r.msgs)
              ann == mqtt_discovery_announce_entity(
                       devices[payload.header_from], dec.val)
          IN IF r.modified /\ disk # "ok"
             \* open(..., mode="w") or f.write raises OSError, which
             \* nothing catches; the list is already updated
             THEN Outcome(r.msgs,
                          IF disk = "open_fails" THEN f ELSE FileCorrupt,
                          << >>, << >>, << >>, r.log, "OSError")
             ELSE
             Outcome(r.msgs,
                     IF r.modified THEN snapshot ELSE f,
                     ann.pubs,
                     << >>,
                     IF r.modified THEN << snapshot >> ELSE << >>,
                     r.log \o ann.log,
                     ann.exc)

\* --------------------------------------------------------- value semantics
\* the values of the state mapping: a str, the int hi * 65536 + lo, or the
\* float (hi * 65536 + lo) / 10^scale
StrVal(s) == [kind |-> "str", str |-> s, hi |-> 0, lo |-> 0, scale |-> 0]

IntVal(hi, lo) == [kind |-> "int", str |-> "", hi |-> hi, lo |-> lo, scale |-> 0]

FloatVal(hi, lo, p) ==
  [kind |-> "float", str |-> "", hi |-> hi, lo |-> lo, scale |-> p]

\* Cover.state[value_item.value] : a tuple subscript
CoverStateLookup(v) ==
  IF v.kind # "int" THEN Raise("TypeError")
  ELSE IF v.hi = 0 /\ v.lo < Len(Cover_state)
  THEN Ok(Idx(Cover_state, v.lo))
  \* a negative index counts from the end of the tuple
  ELSE IF v.hi = -1 /\ v.lo >= 65536 - Len(Cover_state)
  THEN Ok(Idx(Cover_state, v.lo - 65536 + Len(Cover_state)))
  ELSE Raise("IndexError")

\* variant: no sign recovery, the magnitude is taken as unsigned
SensorValue_NoSignRecovery(disc_item, v) ==
  Ok(IF disc_item.precision > 0
     THEN FloatVal(v.hi, v.lo, v.scale + disc_item.precision)
     ELSE v)

\* variant: scaling first, then the sign test on the scaled value (a float
\* has no operator &)
SensorValue_ScaleFirst(disc_item, v) ==
  LET v1 == IF disc_item.precision > 0
            THEN FloatVal(v.hi, v.lo, v.scale + disc_item.precision)
            ELSE v
  IN IF disc_item.signed /\ v1.kind # "int"
     THEN Raise("TypeError")
     ELSE Ok(IF disc_item.signed /\ (v1.hi \div 32768) % 2 # 0
             THEN IntVal(v1.hi - 65536, v1.lo) ELSE v1)

\* the else branch of lora_parse_value_msg: sign recovery, then scaling
SensorValue(disc_item, v) ==
  IF disc_item.signed /\ v.kind # "int"
  THEN Raise("TypeError")
  ELSE LET \* value & 0x80000000 is bit 15 of hi; -0x100000000 + value
           v1 == IF disc_item.signed /\ (v.hi \div 32768) % 2 # 0
                 THEN IntVal(v.hi - 65536, v.lo) ELSE v
           v2 == IF disc_item.precision > 0
                 THEN FloatVal(v1.hi, v1.lo, v1.scale + disc_item.precision)
                 ELSE v1
       IN Ok(v2)

\* values[key] = v on a dict
DictSet(values, key, v) ==
  [k \in (DOMAIN values) \cup {key} |-> IF k = key THEN v ELSE values[k]]

\* variant: the cover branch reads the value after the sign recovery and the
\* scaling of the sensor branch
ApplyDescriptor_CoverScaled(disc_item, st, device, entity_id) ==
  IF entity_id \notin DOMAIN device.entities
  THEN [st EXCEPT !.found = TRUE, !.exc = "KeyError"]
  ELSE LET entity_name == Lower(device.entities[entity_id])
           n == SensorValue(disc_item, st.value)
           s == IF n.exc # "none" THEN n ELSE CoverStateLookup(n.val)
       IN IF disc_item.component \in {"cover", "binary_sensor"}
          THEN IF s.exc # "none"
               THEN [st EXCEPT !.found = TRUE, !.exc = s.exc]
               ELSE [st EXCEPT
                       !.found = TRUE,
                       !.values =
                          DictSet(st.values, entity_name,
                                  IF disc_item.component = "cover"
                                  THEN StrVal(s.val)
                                  ELSE StrVal("ON"))]
          ELSE IF n.exc # "none"
               THEN [st EXCEPT !.found = TRUE, !.exc = n.exc]
               ELSE [st EXCEPT !.found = TRUE, !.value = n.val,
                               !.values = DictSet(st.values, entity_name,
                                                  n.val)]

\* the body of "if disc_item.entity_id == value_item.entity_id" for one
\* catalog entry; st holds value_item.value, the values dict, found, exc
ApplyDescriptor(disc_item, st, device, entity_id) ==
  IF entity_id \notin DOMAIN device.entities
  THEN [st EXCEPT !.found = TRUE, !.exc = "KeyError"]
  ELSE LET entity_name == Lower(device.entities[entity_id])
       IN IF disc_item.component \in {"cover", "binary_sensor"}
          THEN LET s == CoverStateLookup(st.value)
               IN IF s.exc # "none"
                  THEN [st EXCEPT !.found = TRUE, !.exc = s.exc]
                  ELSE [st EXCEPT
                          !.found = TRUE,
                          !.values =
                             DictSet(st.values, entity_name,
                                     IF disc_item.component = "cover"
                                     THEN StrVal(s.val)
                                     \* "OFF" if Cover.state[v] == 0 else "ON":
                                     \* a str never equals the int 0
                                     ELSE StrVal("ON"))]
          ELSE LET n == SensorValue(disc_item, st.value)
               IN IF n.exc # "none"
                  THEN [st EXCEPT !.found = TRUE, !.exc = n.exc]
                  ELSE [st EXCEPT !.found = TRUE, !.value = n.val,
                                  !.values = DictSet(st.values, entity_name,
                                                     n.val)]

\* "for disc_item in discovery_msgs", from index i on
RECURSIVE ScanCatalog(_, _, _, _, _)
ScanCatalog(msgs, i, st, device, entity_id) ==
  IF i > Len(msgs) \/ st.exc # "none" THEN st
  ELSE ScanCatalog(msgs, i + 1,
                   IF msgs[i].entity_id = entity_id
                   THEN ApplyDescriptor(msgs[i], st, device, entity_id)
                   ELSE st,
                   device, entity_id)

\* "for value_item in msg_decoded.value_items", from index i on; acc holds
\* the values dict, the log and the exception
RECURSIVE ScanItems(_, _, _, _, _)
ScanItems(items, i, acc, msgs, device) ==
  IF i > Len(items) \/ acc.exc # "none" THEN acc
  ELSE LET st == ScanCatalog(msgs, 1,
                             [value |-> IntVal(items[i].value.hi,
                                               items[i].value.lo),
                              values |-> acc.values,
                              found |-> FALSE, exc |-> "none"],
                             device, items[i].entity_id)
       IN ScanItems(items, i + 1,
                    [values |-> st.values,
                     log |-> IF st.found THEN acc.log
                             ELSE Append(acc.log,
                                         "warning: could not find entity"),
                     exc |-> st.exc],
                    msgs, device)

lora_parse_value_msg(payload, msgs, f) ==
  LET dec == ValueMsg(payload.message)
      device == devices[payload.header_from]
  IN IF dec.exc # "none"
     THEN Outcome(msgs, f, << >>, << >>, << >>, << >>, dec.exc)
     ELSE LET acc == ScanItems(dec.val.value_items, 1,
                               [values |-> << >>, log |-> << >>,
                                exc |-> "none"],
                               msgs, device)
          IN IF acc.exc # "none"
             THEN Outcome(msgs, f, << >>, << >>, << >>, acc.log, acc.exc)
             ELSE IF DOMAIN acc.values # {}
             THEN Outcome(msgs, f,
                          << [topic |-> << base_topic, Lower(device.name),
                                           "state" >>,
                              kind |-> "state",
                              payload |-> acc.values,
                              qos |-> 1, retain |-> FALSE] >>,
                          << >>, << >>, acc.log, "none")
             ELSE Outcome(msgs, f, << >>, << >>, << >>, acc.log, "none")

\* variant: struct.pack("<h", rssi), the low byte first
PackShort_LittleEndian(rssi) ==
  IF rssi < -32768 \/ rssi > 32767
  THEN Raise("struct.error")
  ELSE Ok(<< (rssi % 65536) % 256, (rssi % 65536) \div 256 >>)

\* ------------------------------------------------------------ ping handlers
\* struct.pack("!h", rssi)
PackShort(rssi) ==
  IF rssi < -32768 \/ rssi > 32767
  THEN Raise("struct.error")
  ELSE Ok(<< (rssi % 65536) \div 256, (rssi % 65536) % 256 >>)

\* the chained comparisons "0 > address > 255" and "-32768 > rssi > 32767"
lora_send_ping_msg(address, rssi) ==
  IF 0 > address /\ address > 255
  THEN [exc |-> "none", sends |-> << >>, log |-> << "error: address invalid" >>]
  ELSE IF -32768 > rssi /\ rssi > 32767
  THEN [exc |-> "none", sends |-> << >>, log |-> << "error: rssi invalid" >>]
  ELSE LET data == PackShort(rssi)
       IN IF data.exc # "none"
          THEN [exc |-> data.exc, sends |-> << >>, log |-> << >>]
          ELSE [exc |-> "none",
                sends |-> << [data |-> data.val, to |-> address,
                              flags |-> PING_REQ] >>,
                log |-> << >>]

lora_parse_ping_req(payload, msgs, f) ==
  LET r == lora_send_ping_msg(payload.header_from, payload.rssi)
  IN Outcome(msgs, f, << >>, r.sends, << >>, r.log, r.exc)

lora_parse_ping_msg(payload, msgs, f) ==
  Outcome(msgs, f, << >>, << >>, << >>, << >>, PingMsg(payload.message).exc)

\* variant: a handler that answers the request with an empty ping_msg to
\* address 1
LogOnly_Answering(msgs, f, line) ==
  Outcome(msgs, f, << >>,
          << [data |-> << >>, to |-> 1, flags |-> PING_MSG] >>, << >>,
          line, "none")

\* the handlers that only log: discovery_req, value_req, config_req,
\* config_msg, config_set_req, service_req
LogOnly(msgs, f, line) ==
  Outcome(msgs, f, << >>, << >>, << >>, line, "none")

\* ----------------------------------------------------------------- dispatch
\* variant: msg_type is the whole flags byte, MSG_TYPE_MASK is not applied
Dispatch_NoMask(payload, msgs, f) ==
       LET msg_type == payload.header_flags
       IN CASE msg_type = PING_REQ -> lora_parse_ping_req(payload, msgs, f)
            [] msg_type = PING_MSG -> lora_parse_ping_msg(payload, msgs, f)
            [] msg_type = DISCOVERY_REQ -> LogOnly(msgs, f, << >>)
            [] msg_type = DISCOVERY_MSG ->
                 lora_parse_discovery_msg(payload, msgs, f)
            [] msg_type = VALUE_REQ ->
                 LogOnly(msgs, f, << "warning: unexpected value request" >>)
            [] msg_type = VALUE_MSG -> lora_parse_value_msg(payload, msgs, f)
            [] msg_type = CONFIG_REQ ->
                 LogOnly(msgs, f, << "warning: unexpected config request" >>)
            [] msg_type = CONFIG_MSG -> LogOnly(msgs, f, << >>)
            [] msg_type = CONFIG_SET_REQ ->
                 LogOnly(msgs, f,
                         << "warning: unexpected config set request" >>)
            [] msg_type = SERVICE_REQ ->
                 LogOnly(msgs, f, << "warning: unexpected service request" >>)
            [] OTHER -> LogOnly(msgs, f, << "info: unsupported message type" >>)

\* the if / elif chain of lora_parse_msg on payload.header_flags & 0x0F
Dispatch(payload, msgs, f) ==
       LET msg_type == payload.header_flags % 16
       IN CASE msg_type = PING_REQ -> lora_parse_ping_req(payload, msgs, f)
            [] msg_type = PING_MSG -> lora_parse_ping_msg(payload, msgs, f)
            [] msg_type = DISCOVERY_REQ -> LogOnly(msgs, f, << >>)
            [] msg_type = DISCOVERY_MSG ->
                 lora_parse_discovery_msg(payload, msgs, f)
            [] msg_type = VALUE_REQ ->
                 LogOnly(msgs, f, << "warning: unexpected value request" >>)
            [] msg_type = VALUE_MSG -> lora_parse_value_msg(payload, msgs, f)
            [] msg_type = CONFIG_REQ ->
                 LogOnly(msgs, f, << "warning: unexpected config request" >>)
            [] msg_type = CONFIG_MSG -> LogOnly(msgs, f, << >>)
            [] msg_type = CONFIG_SET_REQ ->
                 LogOnly(msgs, f,
                         << "warning: unexpected config set request" >>)
            [] msg_type = SERVICE_REQ ->
                 LogOnly(msgs, f, << "warning: unexpected service request" >>)
            [] OTHER -> LogOnly(msgs, f, << "info: unsupported message type" >>)

\* variant: the unknown-sender guard comes after the ping_req branch
lora_parse_msg_GuardAfterPing(payload, msgs, f) ==
  IF payload.header_from \notin DOMAIN devices
       /\ payload.header_flags % 16 # PING_REQ
  THEN LogOnly(msgs, f, << "warning: msg from unknown device" >>)
  ELSE Dispatch(payload, msgs, f)

lora_parse_msg(payload, msgs, f) ==
  IF payload.header_from \notin DOMAIN devices
  THEN LogOnly(msgs, f, << "warning: msg from unknown device" >>)
  ELSE Dispatch(payload, msgs, f)

\* ---------------------------------------------------- enumerated frames
\* sender addresses: 1 and 2 are configured devices, 3 is not
Addresses == {1, 2, 3}

EntityIds == {5, 6}

\* bytes 2..5 of a discovery frame: component, device class, unit, bitfield.
\* binary_sensor door; sensor temperature degC signed 4 bytes precision 1;
\* cover door; component index 3 is outside Component.name
DiscHeaders == { << 0, 5, 0, 0 >>, << 1, 39, 1, 25 >>, << 2, 5, 0, 0 >>,
                 << 3, 0, 0, 0 >> }

\* the wire group of the i-th config item of an enumerated frame: id, unit,
\* bitfield.  1: km, unsigned, 2 bytes, precision 3; 2: um, unsigned,
\* variable size, precision 2; 3: degF, signed, 2 bytes, precision 1
CfgGroup(i) == << i, (i * 5) % 13, (i * 7) % 32 >>

\* the wire groups of n config items
RECURSIVE CfgBytes(_)
CfgBytes(n) == IF n = 0 THEN << >> ELSE CfgBytes(n - 1) \o CfgGroup(n)

\* the byte strings made of n groups drawn from the set groups
RECURSIVE Groups(_, _)
Groups(groups, n) ==
  IF n = 0 THEN { << >> }
  ELSE { g \o rest : g \in groups, rest \in Groups(groups, n - 1) }

\* a frame with its last k bytes missing
Cut(m, k) == SubSeq(m, 1, IF Len(m) > k THEN Len(m) - k ELSE 0)

DiscMsgs ==
  { Cut(<< 0, e >> \o h \o << n >> \o CfgBytes(n), k) :
      e \in EntityIds, h \in DiscHeaders, n \in 0..MaxCfgItems,
      k \in {0, 1, 3} }

\* the wire groups of the value items: entity_id and four magnitude bytes.
\* entity 5 with 0, 1 and 4; entity 6 with 1 and 0x80000001
ValueGroups ==
  { << 5, 0, 0, 0, 0 >>, << 5, 0, 0, 0, 1 >>, << 5, 0, 0, 0, 4 >>,
    << 6, 0, 0, 0, 1 >>, << 6, 128, 0, 0, 1 >> }

ValMsgs ==
  UNION { { Cut(<< 0, n >> \o c, k) :
              c \in Groups(ValueGroups, n), k \in {0, 1} } :
          n \in 0..MaxItems }

\* payloads of the other kinds: empty, and a ping payload with RSSI -60
OtherMsgs == { << >>, << 0, 196 >> }

\* flags bytes: every low nibble, and a high nibble set on two kinds
FlagValues == (0..15) \cup {16, 19}

MsgsFor(msg_type) ==
  IF msg_type = DISCOVERY_MSG THEN DiscMsgs
  ELSE IF msg_type = VALUE_MSG THEN ValMsgs
  ELSE OtherMsgs

\* RSSI of the transport metadata; only ping_req reads it
RssiFor(msg_type) ==
  IF msg_type = PING_REQ THEN {-60, -130, 40000} ELSE {-60}

Frame(a, fl, r, m) ==
  [header_from |-> a, header_flags |-> fl, rssi |-> r, message |-> m]

Frames ==
  UNION { { Frame(a, fl, r, m) : a \in Addresses, r \in RssiFor(fl % 16),
                                  m \in MsgsFor(fl % 16) } :
          fl \in FlagValues }

NoFrame == Frame(0, 0, 0, << >>)

\* contents of discovery.json at startup: no file, an undecodable file, an
\* empty list, and a snapshot written by an earlier run
InitFiles ==
  { FileMissing, FileCorrupt, jsonpickle_encode(<< >>),
    jsonpickle_encode(
      << DiscoveryMsg_from_bytes(<< 0, 5, 2, 5, 0, 0, 1, 1, 5, 7 >>).val >>) }

\* ------------------------------------------------------------ state machine
VARIABLES
  pc,              \* "boot" before lora_load_discovery, "idle" while the
                   \* transport waits for a frame, "inflight" while it
                   \* holds a received frame (last) the callback has not
                   \* been called for, "handled" when the receive callback
                   \* has returned or raised
  discovery_msgs,  \* the in-memory catalog (module global discovery_msgs)
  discovery_json,  \* the content of the file discovery.json
  loaded,          \* the file held the catalog when startup had loaded it
  last,            \* the frame handled last (NoFrame while idle), or held
  prev,            \* discovery_msgs before the last frame
  prev_json,       \* discovery_json before the last frame
  before,          \* discovery_msgs before the first of two deliveries in a
                   \* row of the same frame (prev if the last is the first)
  repeat,          \* the last frame is the second delivery in a row of the
                   \* same discovery frame
  pubs,            \* publishes made while handling the last frame
  sends,           \* radio sends made while handling the last frame
  writes,          \* contents written to discovery.json during the last frame
  log,             \* log lines of the last frame
  exc,             \* exception that left the handler of the last frame
                   \* (or the call of the main thread made last)
  main,            \* the main thread: where it is in main() (at), the index
                   \* of its loop over discovery_msgs (i), what it has
                   \* published (pubs) and logged (log) in
                   \* mqtt_discovery_announce_all, the call it makes or has made
                   \* (call), and which run of the program this is (run)
  origin           \* for each entity_id, the senders of the discovery frames
                   \* that appended or replaced its descriptor in this run,
                   \* the last two of them, oldest first (kept under
                   \* SpecShared only)

vars == << pc, discovery_msgs, discovery_json, loaded, last, prev, prev_json,
           before, repeat, pubs, sends, writes, log, exc, main, disk,
           origin >>

\* no call of an outbound request builder
NoCall == [builder |-> "none", address |-> 0, entity_id |-> 0, service |-> 0,
           ack |-> FALSE]

\* the main thread at a place of main(), before any announcement and call
MainAt(at) ==
  [at |-> at, i |-> 0, pubs |-> << >>, log |-> << >>, call |-> NoCall,
   run |-> 1]

Init ==
  /\ pc = "boot"
  /\ discovery_msgs = << >>
  /\ discovery_json \in InitFiles
  /\ loaded = FALSE
  /\ last = NoFrame
  /\ prev = << >>
  /\ prev_json = discovery_json
  /\ before = << >>
  /\ repeat = FALSE
  /\ pubs = << >>
  /\ sends = << >>
  /\ writes = << >>
  /\ log = << >>
  /\ exc = "none"
  /\ main = MainAt("load")
  /\ disk = "ok"
  /\ origin = << >>

\* main() up to the wait in the MQTT loop, with no frame received before it
\* is there: lora_load_discovery() fills the catalog and
\* mqtt_discovery_announce_all() announces it; an exception that leaves
\* either ends the program (pc = "crashed")
Startup ==
  /\ pc = "boot"
  /\ discovery_msgs' = lora_load_discovery(discovery_json).msgs
  /\ log' = lora_load_discovery(discovery_json).log
  /\ exc' = IF lora_load_discovery(discovery_json).exc # "none"
             THEN lora_load_discovery(discovery_json).exc
             ELSE mqtt_discovery_announce_all(discovery_msgs').exc
  /\ pc' = IF exc' = "none" THEN "idle" ELSE "crashed"
  /\ loaded' = (discovery_json = jsonpickle_encode(discovery_msgs'))
  /\ prev' = discovery_msgs'
  /\ before' = discovery_msgs'
  /\ main' = IF lora_load_discovery(discovery_json).exc # "none"
              THEN [main EXCEPT !.at = "exit"]
              ELSE [main EXCEPT
                      !.at = IF exc' = "none" THEN "loop" ELSE "exit",
                      !.pubs = mqtt_discovery_announce_all(discovery_msgs').pubs,
                      !.log = mqtt_discovery_announce_all(discovery_msgs').log]
  /\ UNCHANGED << discovery_json, last, prev_json, repeat, pubs, sends,
                  writes, disk >>
  /\ UNCHANGED origin

\* the frame is a discovery_msg from a configured device that decodes
IsDiscovery(payload) ==
  /\ payload.header_from \in DOMAIN devices
  /\ payload.header_flags % 16 = DISCOVERY_MSG
  /\ DiscoveryMsg_from_bytes(payload.message).exc = "none"

\* on_lora_receive(payload): the receive callback, one whole frame
on_lora_receive(payload) ==
  LET o == lora_parse_msg(payload, discovery_msgs, discovery_json)
  IN /\ discovery_msgs' = o.msgs
     /\ discovery_json' = o.file
     /\ pubs' = o.pubs
     /\ sends' = o.sends
     /\ writes' = o.writes
     /\ log' = o.log
     /\ exc' = o.exc
     /\ last' = payload
     /\ prev' = discovery_msgs
     /\ prev_json' = discovery_json
     /\ pc' = "handled"
     /\ UNCHANGED << loaded, main, disk >>

\* the transport delivers a frame
Receive ==
  /\ pc = "idle"
  /\ \E payload \in Frames : on_lora_receive(payload)
  /\ before' = discovery_msgs
  /\ repeat' = FALSE
  /\ UNCHANGED origin

\* the transport delivers the discovery frame it delivered last once more
\* (the sender transmitted it again), with no other frame in between
ReceiveAgain ==
  /\ pc = "handled"
  /\ ~repeat
  /\ last.header_flags % 16 = DISCOVERY_MSG
  /\ on_lora_receive(last)
  /\ before' = prev
  /\ repeat' = TRUE
  /\ UNCHANGED origin

\* the transport waits for the next frame; the records of the finished frame
\* are dropped
Return ==
  /\ pc = "handled"
  /\ pc' = "idle"
  /\ last' = NoFrame
  /\ prev' = discovery_msgs
  /\ prev_json' = discovery_json
  /\ before' = discovery_msgs
  /\ repeat' = FALSE
  /\ pubs' = << >>
  /\ sends' = << >>
  /\ writes' = << >>
  /\ log' = << >>
  /\ exc' = "none"
  /\ UNCHANGED << discovery_msgs, discovery_json, loaded, main, disk >>
  /\ UNCHANGED origin

Next == Startup \/ Receive \/ ReceiveAgain \/ Return

Spec == Init /\ [][Next]_vars

\* ----------------------------------- one value frame against one descriptor
\* bitfields of the catalogued descriptors: unsigned and signed, 4 bytes,
\* every precision
ValueBitfields == { s * 16 + 8 + p : s \in 0..1, p \in 0..3 }

\* component and device class bytes of the catalogued descriptors:
\* binary_sensor door, sensor temperature, cover door
ValueKinds == { << 0, 5 >>, << 1, 39 >>, << 2, 5 >> }

\* discovery.json as an earlier run wrote it after one discovery frame
ValueSnapshots ==
  { jsonpickle_encode(
      << DiscoveryMsg_from_bytes(<< 0, e >> \o k \o << 1, b, 1 >>
                                   \o CfgGroup(1)).val >>) :
      e \in EntityIds, k \in ValueKinds, b \in ValueBitfields }

\* the four magnitude bytes of a value item: 0, 1, 2, 3, 4, 1234, 0x7FFFFFFF,
\* 0x80000000, 0x80000001, 0xFFFFFFFF
Magnitudes ==
  { << 0, 0, 0, 0 >>, << 0, 0, 0, 1 >>, << 0, 0, 0, 2 >>, << 0, 0, 0, 3 >>,
    << 0, 0, 0, 4 >>, << 0, 0, 4, 210 >>, << 127, 255, 255, 255 >>,
    << 128, 0, 0, 0 >>, << 128, 0, 0, 1 >>, << 255, 255, 255, 255 >> }

\* value_msg frames with one item, from the configured devices
ValueFrames ==
  { Frame(a, VALUE_MSG, -60, << 0, 1, e >> \o m) :
      a \in DOMAIN devices, e \in EntityIds, m \in Magnitudes }

\* the program has started from a snapshot and the transport holds a frame
\* the callback has not been called for yet (pc = "inflight")
InitValue ==
  /\ pc = "inflight"
  /\ discovery_json \in ValueSnapshots
  /\ discovery_msgs = lora_load_discovery(discovery_json).msgs
  /\ loaded = TRUE
  /\ last \in ValueFrames
  /\ prev = discovery_msgs
  /\ prev_json = discovery_json
  /\ before = discovery_msgs
  /\ repeat = FALSE
  /\ pubs = << >>
  /\ sends = << >>
  /\ writes = << >>
  /\ log = << >>
  /\ exc = "none"
  /\ main = MainAt("loop")
  /\ disk = "ok"
  /\ origin = << >>

\* the transport calls the receive callback with the frame it holds
Deliver ==
  /\ pc = "inflight"
  /\ on_lora_receive(last)
  /\ before' = discovery_msgs
  /\ repeat' = FALSE
  /\ UNCHANGED origin

SpecValue == InitValue /\ [][Deliver]_vars

\* ------------------------------------ one discovery frame, an empty catalog
\* the wire group of the i-th config item of a frame whose first config item
\* has the bitfield b: id, unit, bitfield
CodecGroup(i, b) == << i, (i * 5) % 13, (b + 37 * (i - 1)) % 256 >>

\* the wire groups of n such config items
RECURSIVE CodecCfgBytes(_, _)
CodecCfgBytes(n, b) ==
  IF n = 0 THEN << >> ELSE CodecCfgBytes(n - 1, b) \o CodecGroup(n, b)

\* discovery payloads for entity 5 with every bitfield byte: every component,
\* the first and the eleventh device class, the first and the last unit, one
\* config item
BitfieldMsgs ==
  { << 0, 5, c, dc, u, b, 1 >> \o CfgGroup(1) :
      c \in 0..2, dc \in {0, 10}, u \in {0, 12}, b \in 0..255 }

\* discovery payloads for entity 5 with 0..MaxCfgItems config items whose
\* bitfields start at every byte value, as long as the count declares or
\* followed by one more byte
CfgItemMsgs ==
  { << 0, 5, 1, 39, 1, 25, n >> \o CodecCfgBytes(n, b) \o x :
      n \in 0..MaxCfgItems, b \in 0..255, x \in { << >>, << 9 >> } }

\* discovery_msg frames from device 1
CodecFrames ==
  { Frame(1, DISCOVERY_MSG, -60, m) : m \in BitfieldMsgs \cup CfgItemMsgs }

\* the program has started without a catalog and the transport holds a frame
\* the callback has not been called for yet
InitCodec ==
  /\ pc = "inflight"
  /\ discovery_json \in { FileMissing, jsonpickle_encode(<< >>) }
  /\ discovery_msgs = lora_load_discovery(discovery_json).msgs
  /\ loaded = (discovery_json = jsonpickle_encode(discovery_msgs))
  /\ last \in CodecFrames
  /\ prev = discovery_msgs
  /\ prev_json = discovery_json
  /\ before = discovery_msgs
  /\ repeat = FALSE
  /\ pubs = << >>
  /\ sends = << >>
  /\ writes = << >>
  /\ log = << >>
  /\ exc = "none"
  /\ main = MainAt("loop")
  /\ disk = "ok"
  /\ origin = << >>

SpecCodec == InitCodec /\ [][Deliver]_vars

\* ------------------------------------------------ outbound request builders
\* struct.pack("!B", ...) / struct.pack("!BB", ...): one byte per value
PackBytes(values) ==
  IF \E k \in 1..Len(values) : values[k] < 0 \/ values[k] > 255
  THEN Raise("struct.error")
  ELSE Ok(values)

\* lora.send_to_wait(data, address, flags) and the log line of its result;
\* ack is whether the recipient acknowledged
SendToWait(data, address, flags, ack) ==
  [exc |-> "none",
   sends |-> << [data |-> data, to |-> address, flags |-> flags] >>,
   log |-> << IF ack THEN "info: message sent"
              ELSE "warning: no ack from recipient" >>]

\* a builder that returns at a guard, or raises, without a send
NoSend(e, line) == [exc |-> e, sends |-> << >>, log |-> line]

\* the guards are the chained comparisons "0 > x > 255"
lora_send_ping_req(address, ack) ==
  IF 0 > address /\ address > 255
  THEN NoSend("none", << "error: address invalid" >>)
  ELSE SendToWait(<< >>, address, PING_REQ, ack)

lora_send_discovery_req(address, entity_id, ack) ==
  IF 0 > address /\ address > 255
  THEN NoSend("none", << "error: address invalid" >>)
  ELSE IF 0 > entity_id /\ entity_id > 255
  THEN NoSend("none", << "error: entity id invalid" >>)
  ELSE LET data == PackBytes(<< entity_id >>)
       IN IF data.exc # "none" THEN NoSend(data.exc, << >>)
          ELSE SendToWait(data.val, address, DISCOVERY_REQ, ack)

lora_send_config_req(address, entity_id, ack) ==
  IF 0 > address /\ address > 255
  THEN NoSend("none", << "error: address invalid" >>)
  ELSE IF 0 > entity_id /\ entity_id > 255
  THEN NoSend("none", << "error: entity id invalid" >>)
  ELSE LET data == PackBytes(<< entity_id >>)
       IN IF data.exc # "none" THEN NoSend(data.exc, << >>)
          ELSE SendToWait(data.val, address, CONFIG_REQ, ack)

\* the body after the guards is "pass"
lora_send_config_set_req(address, entity_id) ==
  IF 0 > address /\ address > 255
  THEN NoSend("none", << "error: address invalid" >>)
  ELSE IF 0 > entity_id /\ entity_id > 255
  THEN NoSend("none", << "error: entity id invalid" >>)
  ELSE NoSend("none", << >>)

lora_send_service_req(address, entity_id, service, ack) ==
  IF 0 > address /\ address > 255
  THEN NoSend("none", << "error: address invalid" >>)
  ELSE IF 0 > entity_id /\ entity_id > 255
  THEN NoSend("none", << "error: entity id invalid" >>)
  ELSE IF 0 > service /\ service > 255
  THEN NoSend("none", << "error: service invalid" >>)
  ELSE LET data == PackBytes(<< entity_id, service >>)
       IN IF data.exc # "none" THEN NoSend(data.exc, << >>)
          ELSE SendToWait(data.val, address, SERVICE_REQ, ack)

\* the values of an address, an entity_id or a service code: the ends of
\* 0..255, one inside, and the neighbours outside
ByteArgs == {-1, 0, 1, 255, 256}

BuilderCall(builder, address, entity_id, service, ack) ==
  [builder |-> builder, address |-> address, entity_id |-> entity_id,
   service |-> service, ack |-> ack]

BuilderCalls ==
  { BuilderCall("ping_req", a, 0, 0, k) : a \in ByteArgs, k \in BOOLEAN }
    \cup { BuilderCall(b, a, e, 0, k) :
             b \in {"discovery_req", "config_req"}, a \in ByteArgs,
             e \in ByteArgs, k \in BOOLEAN }
    \cup { BuilderCall("config_set_req", a, e, 0, FALSE) :
             a \in ByteArgs, e \in ByteArgs }
    \cup { BuilderCall("service_req", a, e, v, k) :
             a \in ByteArgs, e \in ByteArgs, v \in ByteArgs, k \in BOOLEAN }

\* the builder of the call c applied to its arguments
ApplyCall(c) ==
  CASE c.builder = "ping_req" -> lora_send_ping_req(c.address, c.ack)
    [] c.builder = "discovery_req" ->
         lora_send_discovery_req(c.address, c.entity_id, c.ack)
    [] c.builder = "config_req" ->
         lora_send_config_req(c.address, c.entity_id, c.ack)
    [] c.builder = "config_set_req" ->
         lora_send_config_set_req(c.address, c.entity_id)
    [] c.builder = "service_req" ->
         lora_send_service_req(c.address, c.entity_id, c.service, c.ack)

\* the program runs with an empty catalog and the main thread is about to
\* call a builder (main.at = "call")
InitBuilders ==
  /\ pc = "idle"
  /\ discovery_json = FileMissing
  /\ discovery_msgs = << >>
  /\ loaded = FALSE
  /\ last = NoFrame
  /\ prev = << >>
  /\ prev_json = discovery_json
  /\ before = << >>
  /\ repeat = FALSE
  /\ pubs = << >>
  /\ sends = << >>
  /\ writes = << >>
  /\ log = << >>
  /\ exc = "none"
  /\ \E c \in BuilderCalls : main = [MainAt("call") EXCEPT !.call = c]
  /\ disk = "ok"
  /\ origin = << >>

\* the main thread makes the call; it returns or raises
Call ==
  /\ main.at = "call"
  /\ main' = [main EXCEPT !.at = "returned"]
  /\ sends' = ApplyCall(main.call).sends
  /\ log' = ApplyCall(main.call).log
  /\ exc' = ApplyCall(main.call).exc
  /\ UNCHANGED << pc, discovery_msgs, discovery_json, loaded, last, prev,
                  prev_json, before, repeat, pubs, writes, disk >>
  /\ UNCHANGED origin

SpecBuilders == InitBuilders /\ [][Call]_vars

\* ------------------------------------------- the store across restarts
\* Specification SpecStore: the program is started on a discovery.json of any
\* of the StoreFiles and with a disk in any of the DiskStates, handles
\* discovery frames, and is stopped and started again on the file it left.

\* the program runs at most MaxRuns times
MaxRuns == 2

DiskStates == {"ok", "open_fails", "write_fails"}

\* a dict of the file without the keys after entity_id
PartialItem == [cls |-> "dict", entity_id |-> 5]

\* discovery.json as a run wrote it that handled, after a frame for
\* entity 5, a discovery frame of device 1 for entity 7, which devices.json
\* does not name: the write comes before the announcement that fails
UnnamedEntityFile ==
  jsonpickle_encode(
    << DiscoveryMsg_from_bytes(<< 0, 5, 2, 5, 0, 0, 1, 1, 5, 7 >>).val,
       DiscoveryMsg_from_bytes(<< 0, 7, 1, 39, 1, 25, 1, 1, 5, 7 >>).val,
       DiscoveryMsg_from_bytes(<< 0, 6, 1, 39, 1, 25, 1, 1, 5, 7 >>).val >>)

\* contents of discovery.json at the first start: the InitFiles, a number,
\* a list of one incomplete dict, a list of a descriptor and an incomplete
\* dict, a snapshot of two descriptors with entity 6 first, and a snapshot
\* with an entity that devices.json does not name
StoreFiles ==
  InitFiles \cup
  { FileNumber, UnnamedEntityFile,
    [state |-> "list", items |-> << PartialItem >>],
    [state |-> "list",
     items |-> jsonpickle_encode(
                 << DiscoveryMsg_from_bytes(
                      << 0, 5, 2, 5, 0, 0, 1, 1, 5, 7 >>).val >>
               ).items \o << PartialItem >>],
    jsonpickle_encode(
      << DiscoveryMsg_from_bytes(<< 0, 6, 1, 39, 1, 25, 1, 1, 5, 7 >>).val,
         DiscoveryMsg_from_bytes(<< 0, 5, 2, 5, 0, 0, 1, 1, 5, 7 >>).val >>) }

\* whole discovery frames of the devices 1 and 2 for the entities 5 and 6,
\* with one or two config items (a frame with none does not decode)
StoreFrames ==
  { Frame(a, DISCOVERY_MSG, -60, << 0, e >> \o h \o << n >> \o CfgBytes(n)) :
      a \in {1, 2}, e \in EntityIds,
      h \in DiscHeaders \ { << 3, 0, 0, 0 >> }, n \in 1..2 }

InitStore ==
  /\ pc = "boot"
  /\ discovery_msgs = << >>
  /\ discovery_json \in StoreFiles
  /\ loaded = FALSE
  /\ last = NoFrame
  /\ prev = << >>
  /\ prev_json = discovery_json
  /\ before = << >>
  /\ repeat = FALSE
  /\ pubs = << >>
  /\ sends = << >>
  /\ writes = << >>
  /\ log = << >>
  /\ exc = "none"
  /\ main = MainAt("load")
  /\ disk \in DiskStates
  /\ origin = << >>

\* the transport delivers a discovery frame
ReceiveDiscovery ==
  /\ pc = "idle"
  /\ \E payload \in StoreFrames : on_lora_receive(payload)
  /\ before' = discovery_msgs
  /\ repeat' = FALSE
  /\ UNCHANGED origin

\* the program is stopped while it waits for a frame and started again: the
\* module globals are initialised anew, the file and the disk stay
Restart ==
  /\ pc = "idle"
  /\ main.run < MaxRuns
  /\ pc' = "boot"
  /\ discovery_msgs' = << >>
  /\ loaded' = FALSE
  /\ last' = NoFrame
  /\ prev' = << >>
  /\ prev_json' = discovery_json
  /\ before' = << >>
  /\ repeat' = FALSE
  /\ pubs' = << >>
  /\ sends' = << >>
  /\ writes' = << >>
  /\ log' = << >>
  /\ exc' = "none"
  /\ main' = [MainAt("load") EXCEPT !.run = main.run + 1]
  /\ UNCHANGED << discovery_json, disk >>
  /\ UNCHANGED origin

NextStore == Startup \/ ReceiveDiscovery \/ Return \/ Restart

SpecStore == InitStore /\ [][NextStore]_vars

\* ------------------------------------------------- main() step by step
\* Specification SpecStartup: main() from lora_load_discovery() to the wait
\* in the MQTT loop, one step per call and one per iteration of the loop of
\* mqtt_discovery_announce_device over discovery_msgs.  on_lora_receive is
\* called by the transport, not by main(): main() never polls the radio
\* and ends blocked in mqtt_client.loop_forever() or input().  The
\* transport can call it from the moment lora_init() has set lora.on_recv.

\* contents of discovery.json at startup: the InitFiles and a snapshot of
\* the entities 6 and 5
StartupFiles ==
  InitFiles \cup
  { jsonpickle_encode(
      << DiscoveryMsg_from_bytes(<< 0, 6, 1, 39, 1, 25, 1, 1, 5, 7 >>).val,
         DiscoveryMsg_from_bytes(<< 0, 5, 2, 5, 0, 0, 1, 1, 5, 7 >>).val >>) }

\* the discovery frames of device 1 with one config item
StartupFrames ==
  { payload \in StoreFrames :
      payload.header_from = 1 /\ payload.message[7] = 1 }

InitStartup ==
  /\ pc = "boot"
  /\ discovery_msgs = << >>
  /\ discovery_json \in StartupFiles
  /\ loaded = FALSE
  /\ last = NoFrame
  /\ prev = << >>
  /\ prev_json = discovery_json
  /\ before = << >>
  /\ repeat = FALSE
  /\ pubs = << >>
  /\ sends = << >>
  /\ writes = << >>
  /\ log = << >>
  /\ exc = "none"
  /\ main = MainAt("load")
  /\ disk = "ok"
  /\ origin = << >>

\* main(): lora_load_discovery()
LoadDiscovery ==
  /\ main.at = "load"
  /\ discovery_msgs' = lora_load_discovery(discovery_json).msgs
  /\ log' = lora_load_discovery(discovery_json).log
  /\ exc' = lora_load_discovery(discovery_json).exc
  /\ loaded' = (discovery_json = jsonpickle_encode(discovery_msgs'))
  /\ prev' = discovery_msgs'
  /\ before' = discovery_msgs'
  /\ main' = [main EXCEPT !.at = IF exc' = "none" THEN "init" ELSE "exit"]
  /\ UNCHANGED << pc, discovery_json, last, prev_json, repeat, pubs, sends,
                  writes, disk >>
  /\ UNCHANGED origin

\* main(): lora_init(), which ends with lora.on_recv = on_lora_receive
LoraInit ==
  /\ main.at = "init"
  /\ pc' = "idle"
  /\ main' = [main EXCEPT !.at = "connect"]
  /\ UNCHANGED << discovery_msgs, discovery_json, loaded, last, prev,
                  prev_json, before, repeat, pubs, sends, writes, log, exc,
                  disk >>
  /\ UNCHANGED origin

\* main(): mqtt_connect()
MqttConnect ==
  /\ main.at = "connect"
  /\ main' = [main EXCEPT !.at = "announce", !.i = 0,
                          !.log = << "info: announcing all",
                                     "info: announcing device" >>]
  /\ UNCHANGED << pc, discovery_msgs, discovery_json, loaded, last, prev,
                  prev_json, before, repeat, pubs, sends, writes, log, exc,
                  disk >>
  /\ UNCHANGED origin

\* one iteration of "for entity in discovery_msgs" of
\* mqtt_discovery_announce_device(1, devices["1"]): the list iterator reads
\* the list as it is now at its index
AnnounceEntity ==
  /\ main.at = "announce"
  /\ main.i < Len(discovery_msgs)
  /\ LET ann == mqtt_discovery_announce_entity(
                  devices[1], discovery_msgs[main.i + 1])
     IN main' = IF ann.exc = "none"
                THEN [main EXCEPT !.i = main.i + 1,
                                  !.pubs = main.pubs \o ann.pubs,
                                  !.log = main.log \o ann.log]
                ELSE [main EXCEPT !.at = "exit"]
  /\ UNCHANGED << pc, discovery_msgs, discovery_json, loaded, last, prev,
                  prev_json, before, repeat, pubs, sends, writes, log, exc,
                  disk >>
  /\ UNCHANGED origin

\* the iterator is exhausted; the other devices have no discovery
AnnounceDone ==
  /\ main.at = "announce"
  /\ main.i >= Len(discovery_msgs)
  /\ main' = [main EXCEPT
                !.at = "ping",
                !.log = main.log
                          \o mqtt_discovery_announce_device(2, discovery_msgs).log
                          \o << "info: all announced" >>]
  /\ UNCHANGED << pc, discovery_msgs, discovery_json, loaded, last, prev,
                  prev_json, before, repeat, pubs, sends, writes, log, exc,
                  disk >>
  /\ UNCHANGED origin

\* main(): lora_send_ping_req(1), then the wait in the MQTT loop
SendPing ==
  /\ main.at = "ping"
  /\ main' = [main EXCEPT !.at = "loop",
                          !.call = BuilderCall("ping_req", 1, 0, 0, TRUE)]
  /\ UNCHANGED << pc, discovery_msgs, discovery_json, loaded, last, prev,
                  prev_json, before, repeat, pubs, sends, writes, log, exc,
                  disk >>
  /\ UNCHANGED origin

\* the transport calls on_lora_receive with a discovery frame
ReceiveAnytime ==
  /\ pc = "idle"
  /\ \E payload \in StartupFrames : on_lora_receive(payload)
  /\ before' = discovery_msgs
  /\ repeat' = FALSE
  /\ UNCHANGED origin

NextStartup ==
  \/ LoadDiscovery
  \/ LoraInit
  \/ MqttConnect
  \/ AnnounceEntity
  \/ AnnounceDone
  \/ SendPing
  \/ ReceiveAnytime
  \/ Return

SpecStartup == InitStartup /\ [][NextStartup]_vars

\* ------------------------------------------ one catalog for all devices
\* Specification SpecShared: the program starts with no catalog, and the
\* devices 1 and 2 both send discovery frames and value frames for the
\* entities 5 and 6; origin records which device's frames set each
\* descriptor.

\* contents of discovery.json at startup: no file, and an empty list
SharedFiles == { FileMissing, jsonpickle_encode(<< >>) }

\* the discovery frames with one config item and the value frames with one
\* item of magnitude 1, 4 or 0x80000001, of either device for either entity
SharedFrames ==
  { Frame(a, DISCOVERY_MSG, -60, << 0, e >> \o h \o << 1 >> \o CfgBytes(1)) :
      a \in {1, 2}, e \in EntityIds, h \in DiscHeaders \ { << 3, 0, 0, 0 >> } }
  \cup
  { Frame(a, VALUE_MSG, -60, << 0, 1, e >> \o m) :
      a \in {1, 2}, e \in EntityIds,
      m \in { << 0, 0, 0, 1 >>, << 0, 0, 0, 4 >>, << 128, 0, 0, 1 >> } }

InitShared ==
  /\ pc = "boot"
  /\ discovery_msgs = << >>
  /\ discovery_json \in SharedFiles
  /\ loaded = FALSE
  /\ last = NoFrame
  /\ prev = << >>
  /\ prev_json = discovery_json
  /\ before = << >>
  /\ repeat = FALSE
  /\ pubs = << >>
  /\ sends = << >>
  /\ writes = << >>
  /\ log = << >>
  /\ exc = "none"
  /\ main = MainAt("load")
  /\ disk = "ok"
  /\ origin = << >>

\* origin after a frame of the sender a has set the descriptor of entity e
SetBy(e, a) ==
  [x \in (DOMAIN origin) \cup {e} |->
     IF x # e THEN origin[x]
     ELSE IF e \in DOMAIN origin
     THEN << origin[e][Len(origin[e])], a >>
     ELSE << a >>]

\* the transport delivers a frame of device 1 or 2; a discovery frame that
\* changes the catalog sets the descriptor of its entity
ReceiveShared ==
  /\ pc = "idle"
  /\ \E payload \in SharedFrames :
       /\ on_lora_receive(payload)
       /\ origin' = IF IsDiscovery(payload)
                        /\ discovery_msgs' # discovery_msgs
                     THEN SetBy(DiscoveryMsg_from_bytes(payload.message)
                                  .val.entity_id,
                                payload.header_from)
                     ELSE origin
  /\ before' = discovery_msgs
  /\ repeat' = FALSE

NextShared == Startup \/ ReceiveShared \/ Return

SpecShared == InitShared /\ [][NextShared]_vars

\* ------------------------------------------------- the ping payload
\* Specification SpecPing: the transport holds a ping_req of device 1 with
\* any RSSI of the signed 16-bit range, or one just outside it, and the
\* callback answers it.

MinShort == -32768

MaxShort == 32767

PingFrames ==
  { Frame(1, PING_REQ, r, << >>) : r \in (MinShort - 1)..(MaxShort + 1) }

InitPing ==
  /\ pc = "inflight"
  /\ discovery_json = FileMissing
  /\ discovery_msgs = << >>
  /\ loaded = FALSE
  /\ last \in PingFrames
  /\ prev = << >>
  /\ prev_json = discovery_json
  /\ before = << >>
  /\ repeat = FALSE
  /\ pubs = << >>
  /\ sends = << >>
  /\ writes = << >>
  /\ log = << >>
  /\ exc = "none"
  /\ main = MainAt("loop")
  /\ disk = "ok"
  /\ origin = << >>

SpecPing == InitPing /\ [][Deliver]_vars

\* ------------------------------------------------------------- properties
\* the callback has handled the frame last
Handled == pc = "handled"

KnownSender == last.header_from \in DOMAIN devices

MsgType == last.header_flags % 16

\* the descriptor decoded from the last frame (when IsDiscovery(last))
D == DiscoveryMsg_from_bytes(last.message).val

\* positions of the catalog msgs that hold entity_id e
Positions(msgs, e) == {i \in 1..Len(msgs) : msgs[i].entity_id = e}

\* a and b differ in one of the six fields next to entity_id
DiffersInMetadata(a, b) ==
  \/ a.component # b.component
  \/ a.device_class # b.device_class
  \/ a.unit # b.unit
  \/ a.signed # b.signed
  \/ a.size # b.size
  \/ a.precision # b.precision

\* C1: a frame from a sender that is not in the device registry changes
\* neither the catalog nor the file, publishes nothing, sends nothing and
\* decodes nothing, whatever its kind and payload.
C1_UnknownSenderDropped ==
  (Handled /\ ~KnownSender) =>
    /\ discovery_msgs = prev
    /\ discovery_json = prev_json
    /\ writes = << >>
    /\ pubs = << >>
    /\ sends = << >>
    /\ exc = "none"
    /\ log = << "warning: msg from unknown device" >>

\* an unknown sender's decodable discovery frame for an entity that the
\* catalog does not hold has been handled
C1_Witness ==
  /\ Handled /\ ~KnownSender
  /\ MsgType = DISCOVERY_MSG
  /\ DiscoveryMsg_from_bytes(last.message).exc = "none"
  /\ Positions(prev, D.entity_id) = {}

\* C2: a discovery frame from a known sender for an entity_id that the
\* catalog does not hold appends the decoded descriptor at the end, all
\* earlier descriptors staying in place, and the whole catalog is written to
\* the file.
C2_AppendNew ==
  (Handled /\ IsDiscovery(last) /\ Positions(prev, D.entity_id) = {}) =>
    /\ Len(discovery_msgs) = Len(prev) + 1
    /\ \A i \in 1..Len(prev) : discovery_msgs[i] = prev[i]
    /\ discovery_msgs[Len(discovery_msgs)] = D
    /\ writes = << jsonpickle_encode(discovery_msgs) >>
    /\ discovery_json = jsonpickle_encode(discovery_msgs)

\* a new entity has been appended to a catalog that was not empty
C2_Witness ==
  /\ Handled /\ IsDiscovery(last)
  /\ Positions(prev, D.entity_id) = {}
  /\ Len(prev) >= 1

\* C3: a discovery frame whose descriptor differs from the catalog's one with
\* the same entity_id in component, device_class, unit, signed, size or
\* precision replaces it at its position, all others staying in place, logs
\* the warning and writes the whole catalog to the file.
C3_ReplaceInPlace ==
  (Handled /\ IsDiscovery(last)) =>
    \A i \in Positions(prev, D.entity_id) :
      DiffersInMetadata(prev[i], D) =>
        /\ Len(discovery_msgs) = Len(prev)
        /\ discovery_msgs[i] = D
        /\ \A j \in 1..Len(prev) : j # i => discovery_msgs[j] = prev[j]
        /\ \E k \in 1..Len(log) :
             log[k] = "warning: entity is different than in discovery_msgs"
        /\ writes = << jsonpickle_encode(discovery_msgs) >>
        /\ discovery_json = jsonpickle_encode(discovery_msgs)

\* the first of two catalogued descriptors has been replaced
C3_Witness ==
  /\ Handled /\ IsDiscovery(last)
  /\ Len(prev) = 2
  /\ prev[1].entity_id = D.entity_id
  /\ DiffersInMetadata(prev[1], D)

\* C4: a discovery frame whose descriptor equals the catalog's one in
\* entity_id and the six metadata fields leaves the catalog, its stored
\* config items included, and the file as they were and writes nothing, also
\* when the config items differ.
C4_EqualNoChange ==
  (Handled /\ IsDiscovery(last)) =>
    ((\E i \in Positions(prev, D.entity_id) : ~DiffersInMetadata(prev[i], D))
       => /\ discovery_msgs = prev
          /\ writes = << >>
          /\ discovery_json = prev_json)

\* an equal descriptor with other config items has been handled
C4_Witness ==
  /\ Handled /\ IsDiscovery(last)
  /\ \E i \in Positions(prev, D.entity_id) :
       /\ ~DiffersInMetadata(prev[i], D)
       /\ Pickle_DiscoveryMsg(prev[i]).config_items
            # Pickle_DiscoveryMsg(D).config_items

\* C5: a frame writes the file at most once; it writes exactly when it is a
\* discovery frame whose reconciliation appended or replaced a descriptor;
\* and what it writes is the whole catalog in order.
C5_WriteOnlyOnChange ==
  Handled =>
    /\ Len(writes) <= 1
    /\ (writes # << >>) <=>
         (/\ IsDiscovery(last)
          /\ \/ Len(discovery_msgs) = Len(prev) + 1
             \/ \E i \in 1..Len(prev) : discovery_msgs[i] # prev[i])
    /\ (writes = << >>) => (discovery_msgs = prev /\ discovery_json = prev_json)
    /\ (writes # << >>) =>
         /\ writes[1] = jsonpickle_encode(discovery_msgs)
         /\ discovery_json = writes[1]
         /\ Len(discovery_json.items) = Len(discovery_msgs)

\* a frame has written a catalog of two descriptors
C5_Witness ==
  /\ Handled
  /\ writes # << >>
  /\ Len(discovery_msgs) = 2

\* C6: the second of two deliveries in a row of the same discovery frame
\* leaves the catalog as the first left it and writes nothing.
C6_Idempotent ==
  (Handled /\ repeat /\ IsDiscovery(last)) =>
    /\ discovery_msgs = prev
    /\ writes = << >>
    /\ discovery_json = prev_json

\* the same discovery frame has been handled twice and the first handling
\* changed the catalog
C6_Witness ==
  /\ Handled /\ repeat /\ IsDiscovery(last)
  /\ before # prev

\* C8: when the file held the catalog after startup, the file holds the
\* catalog (same descriptors, same order) after every frame whose handler
\* returned.
C8_Durable ==
  (loaded /\ Handled /\ exc = "none") =>
    discovery_json = jsonpickle_encode(discovery_msgs)

\* a frame on a loaded catalog has returned after changing the catalog
C8_Witness ==
  /\ loaded /\ Handled /\ exc = "none"
  /\ discovery_msgs # prev
  /\ Len(prev) >= 1

\* C7: every discovery frame from a known sender that decodes is announced
\* exactly once, on the discovery topic of the sender's device and of the
\* entity, with the decoded metadata.
C7_AnnouncedOnce ==
  (Handled /\ IsDiscovery(last)) =>
    /\ Len(pubs) = 1
    /\ pubs[1].kind = "discovery"
    /\ pubs[1].topic[1] = discovery_prefix
    /\ pubs[1].topic[2] = D.component
    /\ pubs[1].topic[3] = Lower(devices[last.header_from].name)
    /\ pubs[1].topic[5] = "config"
    /\ pubs[1].payload.device_class = D.device_class
    /\ pubs[1].retain

\* the last frame is a value_msg from a known sender that decodes
IsValue == KnownSender /\ MsgType = VALUE_MSG /\ ValueMsg(last.message).exc = "none"

\* the value items of the last frame (when IsValue)
Items == ValueMsg(last.message).val.value_items

\* positions of the items whose entity_id the catalog holds / does not hold
KnownItems == {i \in 1..Len(Items) : Positions(prev, Items[i].entity_id) # {}}

UnknownItems == (1..Len(Items)) \ KnownItems

\* the sender's name of the entity of item i is a key of the published mapping
Represented(i) ==
  /\ Len(pubs) = 1
  /\ Items[i].entity_id \in DOMAIN devices[last.header_from].entities
  /\ Lower(devices[last.header_from].entities[Items[i].entity_id])
       \in DOMAIN pubs[1].payload

\* C9: in a value frame with an item whose entity_id the catalog does not
\* hold, that item is skipped with a warning and every item whose entity_id
\* the catalog holds is in the published mapping, wherever the unknown item is.
C9_PartialFailureIsolation ==
  (Handled /\ IsValue /\ UnknownItems # {}) =>
    /\ Cardinality({k \in 1..Len(log) :
                      log[k] = "warning: could not find entity"})
         = Cardinality(UnknownItems)
    /\ \A i \in KnownItems : Represented(i)

\* C10: a value frame from a known sender publishes at most once: once, on
\* the device's state topic, the mapping of the items whose entity_id the
\* catalog holds, when there is such an item; nothing when there is none.
C10_OnePublishPerValueFrame ==
  (Handled /\ KnownSender /\ MsgType = VALUE_MSG) =>
    /\ Len(pubs) <= 1
    /\ IF IsValue /\ KnownItems # {}
       THEN /\ Len(pubs) = 1
            /\ pubs[1].kind = "state"
            /\ pubs[1].topic = << base_topic,
                                  Lower(devices[last.header_from].name),
                                  "state" >>
            /\ \A i \in KnownItems : Represented(i)
            /\ Cardinality(DOMAIN pubs[1].payload) <= Cardinality(KnownItems)
       ELSE pubs = << >>

\* ------------------------------------------- representation of value items
\* item i is the last item of the frame that names its entity_id
LastFor(i) ==
  \A j \in (i + 1)..Len(Items) : Items[j].entity_id # Items[i].entity_id

\* the catalog held the entity_id of item i with this component
Catalogued(i, component) ==
  \E p \in Positions(prev, Items[i].entity_id) : prev[p].component = component

\* the sender's registry names the entity of item i
InRegistry(i) ==
  Items[i].entity_id \in DOMAIN devices[last.header_from].entities

\* the value published for the entity of item i (when Represented(i))
Emitted(i) ==
  pubs[1].payload[Lower(devices[last.header_from].entities[Items[i].entity_id])]

\* the raw magnitude of item i is zero
RawZero(i) == Items[i].value.hi = 0 /\ Items[i].value.lo = 0

\* C11: a value frame with one item of a catalogued binary_sensor entity
\* publishes the token "OFF" for it when the raw value is zero and the token
\* "ON" when the raw value is not zero.
C11_BinarySensorToken ==
  (Handled /\ IsValue /\ Len(Items) = 1 /\ Catalogued(1, "binary_sensor")
     /\ InRegistry(1)) =>
    /\ Represented(1)
    /\ Emitted(1) = StrVal(IF RawZero(1) THEN "OFF" ELSE "ON")

\* C12: a value frame with one item of a catalogued cover entity whose raw
\* value is 0, 1, 2 or 3 publishes closed, open, opening or closing for it,
\* whatever the signed and precision fields of the descriptor are.
C12_CoverToken ==
  (Handled /\ IsValue /\ Len(Items) = 1 /\ Catalogued(1, "cover")
     /\ InRegistry(1) /\ Items[1].value.hi = 0 /\ Items[1].value.lo \in 0..3) =>
    /\ Represented(1)
    /\ Emitted(1).kind = "str"
    /\ Emitted(1).str =
         Idx(<< "closed", "open", "opening", "closing" >>, Items[1].value.lo)

\* a signed cover descriptor of precision 2 and the raw value 3
C12_Witness ==
  /\ Handled /\ IsValue /\ Len(Items) = 1 /\ InRegistry(1)
  /\ Len(prev) = 1
  /\ prev[1].entity_id = Items[1].entity_id
  /\ prev[1].component = "cover" /\ prev[1].signed /\ prev[1].precision = 2
  /\ Items[1].value = [hi |-> 0, lo |-> 3]
  /\ Emitted(1) = StrVal("closing")

\* the catalog's descriptor of the entity of item i (when the catalog holds it)
Desc(i) == prev[CHOOSE p \in Positions(prev, Items[i].entity_id) : TRUE]

\* bit 0x80000000 of the raw magnitude of item i is set
TopBit(i) == Items[i].value.hi >= 32768

\* the integer hi * 65536 + lo of a value below 2^31 in absolute value
Num(v) == v.hi * 65536 + v.lo

\* the last frame is a value frame with one item, of a catalogued sensor
\* entity that the sender's registry names
OneSensorItem ==
  /\ Handled /\ IsValue /\ Len(Items) = 1
  /\ Catalogued(1, "sensor") /\ InRegistry(1)

\* C13: for a sensor item, the published number is the raw magnitude m minus
\* 2^32 (a negative number) when the descriptor is signed and bit 0x80000000
\* of m is set, and m
\* itself when the descriptor is unsigned or the bit is clear; 0x80000001 with
\* signed and precision 0 gives -2147483647.
C13_TwosComplement ==
  OneSensorItem =>
    /\ Represented(1)
    /\ IF Desc(1).signed /\ TopBit(1)
       THEN /\ Emitted(1).hi < 0
            /\ Num(Emitted(1))
                 = (Items[1].value.hi - 65536) * 65536 + Items[1].value.lo
       ELSE /\ Emitted(1).hi = Items[1].value.hi
            /\ Emitted(1).lo = Items[1].value.lo
    /\ (Desc(1).signed /\ Desc(1).precision = 0
          /\ Items[1].value = [hi |-> 32768, lo |-> 1]) =>
         Emitted(1).kind = "int" /\ Num(Emitted(1)) = -2147483647

\* a signed sensor of precision 0 and the raw magnitude 0x80000001
C13_Witness ==
  /\ OneSensorItem
  /\ Desc(1).signed /\ Desc(1).precision = 0
  /\ Items[1].value = [hi |-> 32768, lo |-> 1]
  /\ Emitted(1) = IntVal(-32768, 1)

\* C14: for a sensor item of a descriptor with precision p > 0 the published
\* number is the sign-converted value divided by 10^p (unsigned, p = 1, 1234
\* gives 123.4; signed, p = 2, 0x80000001 gives -21474836.47); with p = 0 the
\* sign-converted integer is published as it is.
C14_FixedPoint ==
  OneSensorItem =>
    /\ Represented(1)
    /\ Emitted(1).kind = IF Desc(1).precision > 0 THEN "float" ELSE "int"
    /\ Emitted(1).scale = Desc(1).precision
    /\ Emitted(1).lo = Items[1].value.lo
    /\ Emitted(1).hi = IF Desc(1).signed /\ TopBit(1)
                       THEN Items[1].value.hi - 65536
                       ELSE Items[1].value.hi
    /\ (~Desc(1).signed /\ Desc(1).precision = 1
          /\ Items[1].value = [hi |-> 0, lo |-> 1234]) =>
         /\ Num(Emitted(1)) \div 10 = 123
         /\ Num(Emitted(1)) % 10 = 4
    /\ (Desc(1).signed /\ Desc(1).precision = 2
          /\ Items[1].value = [hi |-> 32768, lo |-> 1]) =>
         /\ Num(Emitted(1)) < 0
         /\ (-Num(Emitted(1))) \div 100 = 21474836
         /\ (-Num(Emitted(1))) % 100 = 47

\* a signed sensor of precision 2 and the raw magnitude 0x80000001
C14_Witness ==
  /\ OneSensorItem
  /\ Desc(1).signed /\ Desc(1).precision = 2
  /\ Items[1].value = [hi |-> 32768, lo |-> 1]
  /\ Emitted(1) = FloatVal(-32768, 1, 2)

\* the catalog held entity 5 as an unsigned cover of precision 0
CoverFiveCatalogued ==
  \E p \in Positions(prev, 5) :
    prev[p].component = "cover" /\ ~prev[p].signed /\ prev[p].precision = 0

\* the last frame is a value_msg from address 1 (Garage, entity 5: Door) with
\* the one item (entity_id 5, magnitude 1)
DoorOpenFrame ==
  /\ Handled /\ last.header_from = 1 /\ MsgType = VALUE_MSG
  /\ last.message = << 0, 1, 5, 0, 0, 0, 1 >>

\* C15: with entity 5 catalogued as an unsigned cover of precision 0, a
\* value_msg from address 1 (Garage, entity 5 named Door) with the one item
\* (5, 1) causes exactly one publish, of {"door": "open"} to
\* <base_topic>/garage/state.
C15_EndToEnd ==
  (DoorOpenFrame /\ CoverFiveCatalogued) =>
    pubs = << [topic |-> << base_topic, "garage", "state" >>,
               kind |-> "state",
               payload |-> ("door" :> StrVal("open")),
               qos |-> 1, retain |-> FALSE] >>

\* the frame has been handled with entity 5 catalogued as such a cover, and
\* the publish has been made
C15_Witness ==
  /\ DoorOpenFrame /\ CoverFiveCatalogued
  /\ Len(pubs) = 1
  /\ pubs[1].payload["door"].str = "open"

\* ------------------------------------------------------- malformed frames
\* a value payload too short to hold the count byte, or shorter than the
\* 2 + 5 * N bytes its count byte N declares
ShortValue(m) == Len(m) < 2 \/ Len(m) < 2 + 5 * Idx(m, 1)

\* a discovery payload too short to hold the count byte, or shorter than the
\* 7 + 3 * N bytes its count byte N declares
ShortDiscovery(m) == Len(m) < 7 \/ Len(m) < 7 + 3 * Idx(m, 6)

\* a ping payload shorter than its two bytes
ShortPing(m) == Len(m) < 2

\* C16: a value frame that is too short to hold the count byte, or shorter
\* than its count byte declares, fails to decode as a whole with the error
\* MalformedFrame: no item list is returned and nothing is published.
C16_ShortValueFrameIsMalformed ==
  (Handled /\ KnownSender /\ MsgType = VALUE_MSG /\ ShortValue(last.message)) =>
    /\ ValueMsg(last.message).exc = "MalformedFrame"
    /\ ValueMsg(last.message).val = << >>
    /\ pubs = << >>

\* the last frame is from a known sender and is a ping_msg, discovery_msg or
\* value_msg shorter than its declared structure
MalformedLast ==
  /\ Handled /\ KnownSender
  /\ \/ MsgType = PING_MSG /\ ShortPing(last.message)
     \/ MsgType = DISCOVERY_MSG /\ ShortDiscovery(last.message)
     \/ MsgType = VALUE_MSG /\ ShortValue(last.message)

\* C17: a malformed frame from a known sender is dropped: the receive callback
\* returns normally, the catalog and discovery.json are as before the frame,
\* and nothing is published.
C17_MalformedDropped ==
  MalformedLast =>
    /\ exc = "none"
    /\ discovery_msgs = prev
    /\ discovery_json = prev_json
    /\ writes = << >>
    /\ pubs = << >>

\* ------------------------------------------------ decoding discovery frames
\* a discovery payload as long as its count byte declares, whose component,
\* device class and unit bytes are indexes of the vocabularies
ValidDiscovery(m) ==
  /\ ~ShortDiscovery(m)
  /\ Idx(m, 2) < Len(Component_name)
  /\ Idx(m, 3) < Len(DeviceClassTable(Idx(m, 2)))
  /\ Idx(m, 4) < Len(Unit_name)
  /\ \A i \in 0..(Idx(m, 6) - 1) : Idx(m, 8 + 3 * i) < Len(Unit_name)

\* the last frame is a valid discovery frame from a known sender
ValidDiscoveryLast ==
  /\ Handled /\ KnownSender /\ MsgType = DISCOVERY_MSG
  /\ ValidDiscovery(last.message)

\* C18: for a discovery frame of length >= 7 + 3 * N whose byte 6 is N, N = 0
\* included, DiscoveryMsg.from_bytes returns a descriptor with exactly N config
\* items, the i-th decoded from bytes 7 + 3i .. 9 + 3i.
C18_ConfigItemCount ==
  ValidDiscoveryLast =>
    /\ DiscoveryMsg_from_bytes(last.message).exc = "none"
    /\ Len(D.config_items) = Idx(last.message, 6)
    /\ \A i \in 0..(Idx(last.message, 6) - 1) :
         D.config_items[i + 1]
           = ConfigItem_from_bytes(
               << Idx(last.message, 7 + 3 * i), Idx(last.message, 8 + 3 * i),
                  Idx(last.message, 9 + 3 * i) >>).val

\* the fields signed, size and precision of x are those of the bitfield byte
\* b = up * 32 + s * 16 + z * 4 + p: bit 4, the size of code z, bits 1-0
FieldsOf(x, b) ==
  \E up \in 0..7, s \in 0..1, z \in 0..3, p \in 0..3 :
    /\ b = up * 32 + s * 16 + z * 4 + p
    /\ x.signed = (s = 1)
    /\ x.size = Idx(<< 1, 2, 4, 0 >>, z)
    /\ x.precision = p

\* the device class vocabulary of component index c
Vocabulary(c) ==
  CASE c = 0 -> BinarySensor_deviceClassName
    [] c = 1 -> Sensor_deviceClassName
    [] c = 2 -> Cover_deviceClassName

\* C19: in the descriptor decoded from a discovery frame, signed, size and
\* precision are bit 4, the size of the code in bits 3-2 (1, 2, 4, 0) and bits
\* 1-0 of byte 5, whatever the three upper bits are; the same holds for every
\* config item and its third byte; component is binary_sensor, sensor or cover
\* for byte 2 = 0, 1, 2 and device_class is entry byte 3 of that component's
\* vocabulary.
C19_Bitfield ==
  (ValidDiscoveryLast /\ DiscoveryMsg_from_bytes(last.message).exc = "none") =>
    /\ FieldsOf(D, Idx(last.message, 5))
    /\ \A i \in 0..(Len(D.config_items) - 1) :
         FieldsOf(D.config_items[i + 1], Idx(last.message, 9 + 3 * i))
    /\ D.component
         = Idx(<< "binary_sensor", "sensor", "cover" >>, Idx(last.message, 2))
    /\ D.device_class
         = Idx(Vocabulary(Idx(last.message, 2)), Idx(last.message, 3))

\* a cover frame with the bitfield 0xF6, the eleventh device class and a
\* config item with the bitfield 0x07 has been decoded into the catalog
C19_Witness ==
  /\ ValidDiscoveryLast
  /\ Idx(last.message, 5) = 246
  /\ Idx(last.message, 2) = 2
  /\ Idx(last.message, 3) = 10
  /\ Idx(last.message, 9) = 7
  /\ Len(discovery_msgs) = 1
  /\ discovery_msgs[1].component = "cover"
  /\ discovery_msgs[1].device_class = "window"
  /\ discovery_msgs[1].signed
  /\ discovery_msgs[1].size = 2
  /\ discovery_msgs[1].precision = 2
  /\ ~discovery_msgs[1].config_items[1].signed
  /\ discovery_msgs[1].config_items[1].size = 2
  /\ discovery_msgs[1].config_items[1].precision = 3

\* the config items a and b have the same id, unit, signed, size, precision
SameItem(a, b) ==
  /\ a.id = b.id
  /\ a.unit = b.unit
  /\ a.signed = b.signed
  /\ a.size = b.size
  /\ a.precision = b.precision

\* the config items of D, each encoded by to_json, parsed, and decoded by
\* from_dict
Reencoded ==
  [i \in 1..Len(D.config_items) |->
     ConfigItem_from_dict(json_loads(ConfigItem_to_json(D.config_items[i])))]

\* the config items of discovery.json's descriptor of the entity of D, each
\* decoded by from_dict
Reloaded ==
  LET file == lora_load_discovery(discovery_json).msgs
      stored == file[CHOOSE p \in Positions(file, D.entity_id) : TRUE].config_items
  IN [i \in 1..Len(stored) |-> ConfigItem_from_dict(stored[i])]

\* C20: the config items decoded from a valid discovery frame, encoded again
\* (by to_json, and by the write of discovery.json) and decoded by from_dict,
\* have the same id, unit, signed, size and precision, in the same order.
C20_ConfigItemRoundTrip ==
  (ValidDiscoveryLast /\ DiscoveryMsg_from_bytes(last.message).exc = "none") =>
    /\ Len(Reencoded) = Len(D.config_items)
    /\ \A i \in 1..Len(D.config_items) :
         SameItem(Reencoded[i], D.config_items[i])
    /\ writes # << >> =>
         /\ Len(Reloaded) = Len(D.config_items)
         /\ \A i \in 1..Len(D.config_items) :
              SameItem(Reloaded[i], D.config_items[i])

\* a frame with two config items has been decoded and written to
\* discovery.json, and the second item read back is the second on the wire
C20_Witness ==
  /\ ValidDiscoveryLast
  /\ Idx(last.message, 6) = 2
  /\ Idx(last.message, 12) = 246
  /\ writes # << >>
  /\ Len(Reloaded) = 2
  /\ Reloaded[2] = ConfigItem(2, "um", TRUE, 2, 2)
  /\ Reencoded[2] = ConfigItem(2, "um", TRUE, 2, 2)
  /\ Reloaded[1].id = 1

\* ----------------------------------------------------- dispatch by kind
\* what handling the last frame did: catalog, file, publishes, sends,
\* writes, log lines and exception
Effects ==
  Outcome(discovery_msgs, discovery_json, pubs, sends, writes, log, exc)

\* the last frame with the high nibble of its flags cleared
LowNibbleFrame == [last EXCEPT !.header_flags = last.header_flags % 16]

\* what the one handler of the kind k does with the last frame
HandlerOf(k) ==
  CASE k = 0 -> lora_parse_ping_req(last, prev, prev_json)
    [] k = 1 -> lora_parse_ping_msg(last, prev, prev_json)
    [] k = 3 -> lora_parse_discovery_msg(last, prev, prev_json)
    [] k = 5 -> lora_parse_value_msg(last, prev, prev_json)
    [] k = 2 \/ k = 7 -> Outcome(prev, prev_json, << >>, << >>, << >>, << >>, "none")
    [] k = 4 -> Outcome(prev, prev_json, << >>, << >>, << >>,
                        << "warning: unexpected value request" >>, "none")
    [] k = 6 -> Outcome(prev, prev_json, << >>, << >>, << >>,
                        << "warning: unexpected config request" >>, "none")
    [] k = 8 -> Outcome(prev, prev_json, << >>, << >>, << >>,
                        << "warning: unexpected config set request" >>, "none")
    [] k = 9 -> Outcome(prev, prev_json, << >>, << >>, << >>,
                        << "warning: unexpected service request" >>, "none")

\* C21: a frame from a known sender is handled as the frame with the same low
\* nibble and a zero high nibble of the flags is; a kind 0..9 has the effects
\* of the handler of that kind and of no other; a kind 10..15 is logged as
\* unsupported and changes no catalog, publishes nothing and sends nothing.
C21_DispatchByLowNibble ==
  (Handled /\ KnownSender) =>
    /\ Effects = lora_parse_msg(LowNibbleFrame, prev, prev_json)
    /\ MsgType \in 0..9 => Effects = HandlerOf(MsgType)
    /\ MsgType \in 10..15 =>
         /\ log = << "info: unsupported message type" >>
         /\ discovery_msgs = prev /\ discovery_json = prev_json
         /\ pubs = << >> /\ sends = << >> /\ exc = "none"

\* a discovery frame whose flags byte is 0x13 has been handled as a
\* discovery frame: the catalog has its descriptor
C21_Witness ==
  /\ Handled /\ KnownSender
  /\ last.header_flags = 19
  /\ IsDiscovery(last)
  /\ discovery_msgs # prev
  /\ \E p \in 1..Len(discovery_msgs) : discovery_msgs[p] = D

\* C22: a ping_req frame from a known sender causes exactly one radio send,
\* addressed to the sender, tagged ping_msg, carrying the RSSI of the
\* received frame; the catalog is unchanged and nothing is published.
C22_PingReply ==
  (Handled /\ KnownSender /\ MsgType = 0) =>
    /\ Len(sends) = 1
    /\ sends[1].to = last.header_from
    /\ sends[1].flags = 1
    /\ sends[1].data = PackShort(last.rssi).val
    /\ discovery_msgs = prev
    /\ pubs = << >>

\* -------------------------------------------------------- request builders
\* the call of the main thread has returned or raised
Called == main.at = "returned"

\* an argument that the builder of the call takes is outside 0..255
ArgOutOfRange ==
  \/ main.call.address \notin 0..255
  \/ main.call.builder # "ping_req" /\ main.call.entity_id \notin 0..255
  \/ main.call.builder = "service_req" /\ main.call.service \notin 0..255

\* C23: a builder called with an address, an entity_id or a service code
\* outside 0..255 logs the error and returns; the transport's send is not
\* invoked.
C23_BuilderValidation ==
  (Called /\ ArgOutOfRange) =>
    /\ exc = "none"
    /\ sends = << >>
    /\ Len(log) = 1
    /\ log[1] \in {"error: address invalid", "error: entity id invalid",
                   "error: service invalid"}

\* the file is a list of dicts that each have every key of a descriptor
ValidSnapshot(f) ==
  /\ f.state = "list"
  /\ \A i \in 1..Len(f.items) : DescriptorKeys \subseteq DOMAIN f.items[i]

\* C24: the load at startup is never fatal.  It returns normally; on a
\* missing file and on a file that is not a list of complete descriptors the
\* catalog is empty and one warning is logged; on a valid snapshot the
\* catalog holds exactly the descriptors of the file, in file order.
C24_LoadNeverFatal ==
  [][Startup =>
       /\ exc' = "none"
       /\ pc' = "idle"
       /\ ValidSnapshot(discovery_json) =>
            /\ Len(discovery_msgs') = Len(discovery_json.items)
            /\ \A i \in 1..Len(discovery_json.items) :
                 discovery_msgs'[i] =
                   DiscoveryMsg_from_dict(discovery_json.items[i])
       /\ ~ValidSnapshot(discovery_json) =>
            /\ discovery_msgs' = << >>
            /\ Len(log') = 1
            /\ log'[1] \in {"warning: could not find file",
                             "warning: failed to decode file"}]_vars

\* the last frame is a discovery frame that made the handler write the file
\* while the disk does not take the write, for an entity that can be
\* announced
WriteFailed ==
  /\ Handled
  /\ IsDiscovery(last)
  /\ disk # "ok"
  /\ Reconcile(prev, D).modified
  /\ mqtt_discovery_announce_entity(devices[last.header_from], D).exc
       = "none"

\* C25: when the snapshot cannot be written the handler does not fail: the
\* failure is logged as a warning, the catalog holds the update, and the
\* descriptor is announced all the same.
C25_PersistenceFailure ==
  WriteFailed =>
    /\ exc = "none"
    /\ discovery_msgs = Reconcile(prev, D).msgs
    /\ pubs =
         mqtt_discovery_announce_entity(devices[last.header_from], D).pubs
    /\ \E i \in 1..Len(log) :
         log[i] \notin
           { "warning: entity not in discovery_msgs",
             "warning: entity is different than in discovery_msgs",
             "debug: entity is same as in discovery_msgs",
             "info: published entity" }

\* the startup announcement of main() has finished
AnnouncementFinished == main.at \in {"ping", "loop"}

\* C26: no frame is delivered to the receive callback before the startup
\* announcement has finished, so the callback never changes the catalog
\* while the announcement loop of the main thread iterates over it.
C26_SingleWriter == Handled => AnnouncementFinished

\* the catalogs a and b hold descriptors that DiscoveryMsg.__eq__ takes for
\* equal, in the same order
SameCatalog(a, b) ==
  /\ Len(a) = Len(b)
  /\ \A p \in 1..Len(a) : DiscoveryMsg_eq(a[p], b[p])

\* the program runs with a disk that takes every write
Running == pc \in {"idle", "handled"} /\ disk = "ok"

\* the last frame is the first one after a restart and carries the
\* descriptor that the loaded catalog holds for its entity
Replayed ==
  /\ Handled
  /\ main.run > 1
  /\ IsDiscovery(last)
  /\ prev = lora_load_discovery(prev_json).msgs
  /\ \E p \in 1..Len(prev) : DiscoveryMsg_eq(prev[p], D)

\* C27: the store round-trips.  What a start would load from the file is
\* the catalog in memory, descriptor by descriptor under DiscoveryMsg.__eq__
\* and in the same order, and so is what is loaded from a snapshot just
\* written; after a restart, a discovery frame that carries a descriptor of
\* the loaded catalog changes neither the catalog nor the file and writes
\* nothing.
C27_StoreRoundTrip ==
  /\ Running =>
       /\ lora_load_discovery(discovery_json).exc = "none"
       /\ SameCatalog(lora_load_discovery(discovery_json).msgs,
                      discovery_msgs)
  /\ (Running /\ writes # << >>) =>
       /\ discovery_json = writes[Len(writes)]
       /\ SameCatalog(lora_load_discovery(writes[Len(writes)]).msgs,
                      discovery_msgs)
  /\ (Running /\ Replayed) =>
       /\ discovery_msgs = prev
       /\ discovery_json = prev_json
       /\ writes = << >>

\* after a restart the catalog, loaded from a snapshot of two entities that
\* the run before wrote (no file of the first start holds entity 5 as a
\* binary_sensor), has taken a replayed frame of its second entity
C27_Witness ==
  /\ Running
  /\ Replayed
  /\ Len(prev) = 2
  /\ prev[1].entity_id = 6
  /\ prev[2].entity_id = 5
  /\ prev[2].component = "binary_sensor"
  /\ D.entity_id = 5
  /\ prev[2].config_items[1].cls = "dict"
  /\ Len(D.config_items) = 2

\* the kinds whose handlers only log
RequestKinds ==
  {DISCOVERY_REQ, VALUE_REQ, CONFIG_REQ, CONFIG_MSG, CONFIG_SET_REQ,
   SERVICE_REQ}

\* C28: only a discovery_msg frame changes the catalog.  A frame of any
\* other kind leaves the catalog and the file as they were and writes
\* nothing; a discovery_req, value_req, config_req, config_msg,
\* config_set_req or service_req frame also publishes nothing and sends
\* nothing.
C28_OnlyDiscoveryChangesCatalog ==
  /\ (Handled /\ MsgType # DISCOVERY_MSG) =>
       /\ discovery_msgs = prev
       /\ discovery_json = prev_json
       /\ writes = << >>
  /\ (Handled /\ MsgType \in RequestKinds) =>
       /\ pubs = << >>
       /\ sends = << >>
       /\ exc = "none"

\* a value_req from a configured device has been handled while the catalog
\* holds two descriptors
C28_Witness ==
  /\ Handled
  /\ KnownSender
  /\ MsgType = VALUE_REQ
  /\ Len(prev) = 2
  /\ log = << "warning: unexpected value request" >>

\* C29: insertion order is preserved.  A handled frame never shortens the
\* catalog and leaves every position with the entity_id it had; the catalog
\* grows by at most one descriptor, at the end, for an entity_id it did not
\* hold; and a snapshot that is written lists the entity_ids in the order of
\* the catalog.
C29_InsertionOrder ==
  Handled =>
    /\ Len(discovery_msgs) >= Len(prev)
    /\ Len(discovery_msgs) <= Len(prev) + 1
    /\ \A p \in 1..Len(prev) :
         p <= Len(discovery_msgs)
           /\ discovery_msgs[p].entity_id = prev[p].entity_id
    /\ Len(discovery_msgs) = Len(prev) + 1 =>
         /\ IsDiscovery(last)
         /\ discovery_msgs[Len(discovery_msgs)] = D
         /\ Positions(prev, D.entity_id) = {}
    /\ \A w \in 1..Len(writes) :
         /\ Len(writes[w].items) = Len(discovery_msgs)
         /\ \A p \in 1..Len(discovery_msgs) :
              writes[w].items[p].entity_id = discovery_msgs[p].entity_id

\* the first of two descriptors has been replaced, and the snapshot written
C29_Witness ==
  /\ Handled
  /\ IsDiscovery(last)
  /\ Len(prev) = 2
  /\ D.entity_id = prev[1].entity_id
  /\ prev[2].entity_id # D.entity_id
  /\ discovery_msgs[1] = D
  /\ DiffersInMetadata(prev[1], D)
  /\ writes # << >>

\* every item of the last value frame is of an entity that the sender's
\* registry names and the catalog holds as cover, binary_sensor or sensor
AllItemsCatalogued ==
  /\ Handled
  /\ IsValue
  /\ Len(Items) >= 1
  /\ \A i \in 1..Len(Items) :
       /\ InRegistry(i)
       /\ \/ Catalogued(i, "cover")
          \/ Catalogued(i, "binary_sensor")
          \/ Catalogued(i, "sensor")

\* C30: a value frame never fails because of the raw magnitude of an item:
\* whatever the magnitudes of its catalogued items, the handler completes
\* and every item is represented in the one published mapping.
C30_MagnitudeNeverFails ==
  AllItemsCatalogued =>
    /\ exc = "none"
    /\ \A i \in 1..Len(Items) : Represented(i)

\* the publish p announces for the device with this id
AnnouncesFor(p, id) == p.topic[3] = Lower(devices[id].name)

\* C31: the startup announcement announces every descriptor of the loaded
\* catalog for the device with id 1, in catalog order, and nothing for any
\* other configured device, for which it only logs a warning.
C31_StartupAnnouncement ==
  [][(Startup /\ lora_load_discovery(discovery_json).exc = "none") =>
       /\ exc' = "none"
       /\ pc' = "idle"
       /\ Len(main'.pubs) = Len(discovery_msgs')
       /\ \A p \in 1..Len(main'.pubs) :
            /\ p <= Len(discovery_msgs')
            /\ main'.pubs[p].kind = "discovery"
            /\ main'.pubs[p].topic[2] = discovery_msgs'[p].component
            /\ main'.pubs[p].payload.device_class
                 = discovery_msgs'[p].device_class
            /\ AnnouncesFor(main'.pubs[p], 1)
       /\ Len(SelectSeq(main'.log,
                        LAMBDA l : l = "warning: device has no discovery"))
            = Len(DeviceIds) - 1]_vars

\* the catalog msgs holds at most one descriptor per entity_id
OnePerEntity(msgs) ==
  \A p, q \in 1..Len(msgs) : msgs[p].entity_id = msgs[q].entity_id => p = q

\* C32: a handled frame keeps the catalog at one descriptor per entity_id:
\* if that held before the frame (from the startup load on), it holds after
\* it, and it holds of the snapshot the frame wrote.
C32_OnePerEntity ==
  /\ (pc \in {"idle", "handled"} /\ OnePerEntity(prev)) =>
       OnePerEntity(discovery_msgs)
  /\ (Handled /\ OnePerEntity(prev)) =>
       \A w \in 1..Len(writes) : OnePerEntity(writes[w].items)

\* a frame of device 2 has replaced the descriptor of entity 5 in a catalog
\* of two entities
C32_Witness ==
  /\ Handled
  /\ IsDiscovery(last)
  /\ last.header_from = 2
  /\ Len(prev) = 2
  /\ OnePerEntity(prev)
  /\ D.entity_id = 5
  /\ Positions(prev, 5) # {}
  /\ discovery_msgs # prev
  /\ Len(discovery_msgs) = 2

\* the last frame as the device a would have sent it
SentBy(a) == [last EXCEPT !.header_from = a]

\* the devices whose registry entry names the entity of item i
NamedBy(i) ==
  {a \in DOMAIN devices : Items[i].entity_id \in DOMAIN devices[a].entities}

\* C33: the catalog is keyed by entity_id alone and shared by all devices.
\* A discovery frame is reconciled with the one descriptor of its entity_id
\* whichever device's frame set it (kept where it is if equal, replaced in
\* place if not), and the catalog and the file after it are what they would
\* be had any other configured device sent it.  A value item is published
\* with the value the catalogued descriptor of its entity_id gives, the same
\* for whichever device that names the entity sends it.
C33_SharedCatalog ==
  /\ (Handled /\ IsDiscovery(last)) =>
       /\ \A p \in Positions(prev, D.entity_id) :
            /\ p <= Len(discovery_msgs)
            /\ discovery_msgs[p] =
                 IF DiscoveryMsg_eq(prev[p], D) THEN prev[p] ELSE D
       /\ Positions(prev, D.entity_id) # {} =>
            Len(discovery_msgs) = Len(prev)
       /\ \A a \in DOMAIN devices :
            /\ lora_parse_msg(SentBy(a), prev, prev_json).msgs
                 = discovery_msgs
            /\ lora_parse_msg(SentBy(a), prev, prev_json).file
                 = discovery_json
  /\ (Handled /\ IsValue /\ Len(Items) = 1 /\ Represented(1)) =>
       /\ Positions(prev, Items[1].entity_id) # {}
       /\ Desc(1).component = "sensor" =>
            Emitted(1) =
              SensorValue(Desc(1), IntVal(Items[1].value.hi,
                                          Items[1].value.lo)).val
       /\ Desc(1).component = "cover" =>
            Emitted(1) = StrVal(Cover_state[Items[1].value.lo + 1])
       /\ \A a \in NamedBy(1) :
            LET o == lora_parse_msg(SentBy(a), prev, prev_json)
            IN /\ o.exc = "none"
               /\ Len(o.pubs) = 1
               /\ Lower(devices[a].entities[Items[1].entity_id])
                    \in DOMAIN o.pubs[1].payload
               /\ o.pubs[1].payload[
                     Lower(devices[a].entities[Items[1].entity_id])]
                    = Emitted(1)

\* device 1 sends a value item for entity 5, whose descriptor a frame of
\* device 1 had set and a frame of device 2 has replaced with a signed
\* sensor descriptor; the magnitude 0x80000001 is published as negative
C33_Witness ==
  /\ Handled
  /\ IsValue
  /\ last.header_from = 1
  /\ Len(Items) = 1
  /\ Items[1].entity_id = 5
  /\ 5 \in DOMAIN origin
  /\ origin[5] = << 1, 2 >>
  /\ Represented(1)
  /\ Desc(1).component = "sensor"
  /\ Desc(1).signed
  /\ TopBit(1)
  /\ Emitted(1).hi < 0

\* the low byte of r read as a signed 8-bit integer
LowByteSigned(r) == IF r % 256 >= 128 THEN (r % 256) - 256 ELSE r % 256

\* a ping_req of a configured device with an RSSI of the signed 16-bit
\* range has been answered
PingAnswered ==
  /\ Handled
  /\ KnownSender
  /\ MsgType = PING_REQ
  /\ last.rssi >= MinShort
  /\ last.rssi <= MaxShort

\* C34: the payload that lora_send_ping_msg builds for an RSSI r of the
\* signed 16-bit range is 2 bytes long, and PingMsg decodes it to the low
\* byte of r read as a signed 8-bit integer, which is r itself for r in
\* -128..127.
C34_PingRoundTrip ==
  PingAnswered =>
    /\ Len(sends) = 1
    /\ Len(sends[1].data) = 2
    /\ \A b \in 1..2 : sends[1].data[b] \in 0..255
    /\ PingMsg(sends[1].data).exc = "none"
    /\ PingMsg(sends[1].data).val.rssi = LowByteSigned(last.rssi)
    /\ (last.rssi >= -128 /\ last.rssi <= 127) =>
         PingMsg(sends[1].data).val.rssi = last.rssi

\* the answer to a ping_req received with RSSI -130 carries ff 7e, which
\* decodes to 126
C34_Witness ==
  /\ PingAnswered
  /\ last.rssi = -130
  /\ sends = << [data |-> << 255, 126 >>, to |-> 1, flags |-> PING_REQ] >>
  /\ PingMsg(sends[1].data).val.rssi = 126

====
